---- MODULE Spec2Model ----
(***************************************************************************)
(* Adventcord: the hourly cron job (scripts/cron.ts) that sends Advent of  *)
(* Code leaderboard updates and puzzle notifications to chat webhooks,     *)
(* with the libraries it calls (lib/discord, lib/slack, lib/aoc,           *)
(* lib/validation, lib/fetch) and the tables of db/schema.ts.              *)
(***************************************************************************)
EXTENDS Integers, Sequences, FiniteSets, TLC

VARIABLES
    \* persisted state and environment
    webhooks,           \* table webhooks: id -> row
    leaderboardCache,   \* table leaderboard_cache: id -> row
    logs,               \* table logs, in insertion order
    foreignKeys,        \* whether the database enforces foreign keys
    now,                \* Date.now()
    \* one run of scripts/cron.ts
    cliArgs,            \* parsed flags
    eastern,            \* currentHour, month, day, year after the overrides
    pc,                 \* where main() is
    allWebhooks,        \* the rows main() loaded
    puzzleStats,        \* { success, errors, deleted } of the puzzle pass
    i,                  \* index into puzzleWebhooks
    webhooksByLeaderboard, \* the groups in Map insertion order
    g,                  \* index of the group being processed
    leaderboardResult,  \* what getLeaderboard returned for the group
    j,                  \* index into webhooksForLeaderboard
    counts,             \* successCount, errorCount, deletedCount
    summary,            \* what main() printed at its end
    \* history of the run, for stating properties
    webhooks0,          \* the table webhooks when the run started
    deliveries,         \* every request sent to a destination
    lbCalls,            \* every getLeaderboard call
    \* the delivery client on its own
    req,    \* delivery client under test: [client, webhookUrl, payload, net]
    res     \* what the delivery client returned for req

NULL == "null"

(***************************************************************************)
(* The network as the delivery clients see it (lib/fetch.ts).  A request   *)
(* either gets an HTTP response with a status, or the transport fails      *)
(* (DNS, connection reset, timeout) and the fetch rejects.                 *)
(***************************************************************************)
HttpStatuses == {200, 204, 302, 400, 404, 410, 429, 500}

NetBehaviours ==
    [kind : {"response"}, status : HttpStatuses]
        \cup {[kind |-> "throw", status |-> 0]}

\* Destination endpoints: two Discord webhooks, one Slack webhook, and a string
\* that new URL() rejects.
DiscordUrls == {"https://discord.com/api/webhooks/1/a",
                "https://discord.com/api/webhooks/2/b"}
SlackUrls == {"https://hooks.slack.com/services/T1/B1/x"}
ParsableUrls == DiscordUrls \cup SlackUrls
EndpointUrls == ParsableUrls \cup {"not a url"}

\* JSON.stringify(payload): throws a TypeError on a cyclic value.
JSON_stringify(payload) ==
    IF payload.cyclic
    THEN [thrown |-> TRUE, message |-> "Converting circular structure to JSON",
          json |-> NULL]
    ELSE [thrown |-> FALSE, message |-> NULL, json |-> payload]

\* statusText of a response, the message of the error object of the fetcher
StatusText(status) ==
    CASE status = 200 -> "OK"
      [] status = 204 -> "No Content"
      [] status = 302 -> "Found"
      [] status = 400 -> "Bad Request"
      [] status = 404 -> "Not Found"
      [] status = 410 -> "Gone"
      [] status = 429 -> "Too Many Requests"
      [] status = 500 -> "Internal Server Error"
      [] OTHER -> "Unknown"

\* response.error when the response was ok (null in the code)
NoError == [isSet |-> FALSE, status |-> 0, message |-> NULL]

\* createFetch({ retry: { type: "linear", attempts: 3, delay: 1000 } })
RetryAttempts == 3
RetryDelay == 1000

\* the time the retries of a call take
RetryTime(requests) == IF requests > 1 THEN (requests - 1) * RetryDelay ELSE 0

\* fetcher(url, options): { data, error } for a response, error set when the
\* response is not ok (status outside 200..299); a transport failure is thrown.
\* The one fetcher serves the delivery clients and fetchLeaderboard, with
\* its retry: a request whose response is not ok is sent again after the
\* delay until the attempts are used up, and the last response is the
\* result.  net is what the server does with every request of the call;
\* requests is the number of requests sent.
fetcher(parsable, net) ==
    IF ~parsable
    THEN [thrown |-> TRUE, message |-> "Invalid URL", error |-> NoError,
          requests |-> 0]
    ELSE IF net.kind = "throw"
    THEN [thrown |-> TRUE, message |-> "fetch failed", error |-> NoError,
          requests |-> 1]
    ELSE IF net.status >= 200 /\ net.status <= 299
         THEN [thrown |-> FALSE, message |-> NULL, error |-> NoError,
               requests |-> 1]
         ELSE [thrown |-> FALSE, message |-> NULL,
               error |-> [isSet |-> TRUE, status |-> net.status,
                          message |-> StatusText(net.status)],
               requests |-> 1 + RetryAttempts]

\* SendWebhookResult (error is <<>> when the code leaves it undefined); raised = the promise rejected instead of resolving.
Result(success, error, webhookDeleted) ==
    [raised |-> FALSE, success |-> success, error |-> error,
     webhookDeleted |-> webhookDeleted]

Raised(message) ==
    [raised |-> TRUE, success |-> FALSE, error |-> <<message>>,
     webhookDeleted |-> FALSE]

sendDiscordWebhook_nocatch(webhookUrl, payload, net) ==
    LET body == JSON_stringify(payload)
        response == fetcher(webhookUrl \in ParsableUrls, net) IN
    IF body.thrown THEN Raised(body.message)
    ELSE IF response.thrown THEN Raised(response.message)
    ELSE IF response.error.isSet
         THEN IF response.error.status = 404
              THEN Result(FALSE, <<"Webhook not found (deleted)">>, TRUE)
              ELSE Result(FALSE,
                          <<"Discord API error: ", response.error.message>>,
                          FALSE)
         ELSE Result(TRUE, <<>>, FALSE)

sendDiscordWebhook_410(webhookUrl, payload, net) ==
    LET body == JSON_stringify(payload)
        response == fetcher(webhookUrl \in ParsableUrls, net) IN
    IF body.thrown
    THEN Result(FALSE, <<"Failed to send webhook: ", body.message>>, FALSE)
    ELSE IF response.thrown
    THEN Result(FALSE, <<"Failed to send webhook: ", response.message>>, FALSE)
    ELSE IF response.error.isSet
         THEN IF response.error.status = 404 \/ response.error.status = 410
              THEN Result(FALSE, <<"Webhook not found (deleted)">>, TRUE)
              ELSE Result(FALSE,
                          <<"Discord API error: ", response.error.message>>,
                          FALSE)
         ELSE Result(TRUE, <<>>, FALSE)

sendDiscordWebhook_nodeleted(webhookUrl, payload, net) ==
    LET body == JSON_stringify(payload)
        response == fetcher(webhookUrl \in ParsableUrls, net) IN
    IF body.thrown
    THEN Result(FALSE, <<"Failed to send webhook: ", body.message>>, FALSE)
    ELSE IF response.thrown
    THEN Result(FALSE, <<"Failed to send webhook: ", response.message>>, FALSE)
    ELSE IF response.error.isSet
         THEN Result(FALSE,
                     <<"Discord API error: ", response.error.message>>,
                     FALSE)
         ELSE Result(TRUE, <<>>, FALSE)

\* lib/discord.ts sendDiscordWebhook
sendDiscordWebhook(webhookUrl, payload, net) ==
    LET body == JSON_stringify(payload)
        response == fetcher(webhookUrl \in ParsableUrls, net) IN
    IF body.thrown
    THEN \* catch (err)
         Result(FALSE, <<"Failed to send webhook: ", body.message>>, FALSE)
    ELSE IF response.thrown
    THEN \* catch (err)
         Result(FALSE, <<"Failed to send webhook: ", response.message>>, FALSE)
    ELSE IF response.error.isSet
         THEN IF response.error.status = 404
              THEN Result(FALSE, <<"Webhook not found (deleted)">>, TRUE)
              ELSE Result(FALSE,
                          <<"Discord API error: ", response.error.message>>,
                          FALSE)
         ELSE Result(TRUE, <<>>, FALSE)

sendSlackWebhook_no410(webhookUrl, payload, net) ==
    LET body == JSON_stringify(payload)
        response == fetcher(webhookUrl \in ParsableUrls, net) IN
    IF body.thrown
    THEN Result(FALSE, <<"Failed to send webhook: ", body.message>>, FALSE)
    ELSE IF response.thrown
    THEN Result(FALSE, <<"Failed to send webhook: ", response.message>>, FALSE)
    ELSE IF response.error.isSet
         THEN IF response.error.status = 404
              THEN Result(FALSE,
                          <<"Webhook not found (deleted or invalid)">>, TRUE)
              ELSE Result(FALSE,
                          <<"Slack API error: ", response.error.message>>,
                          FALSE)
         ELSE Result(TRUE, <<>>, FALSE)

\* lib/slack.ts sendSlackWebhook
sendSlackWebhook(webhookUrl, payload, net) ==
    LET body == JSON_stringify(payload)
        response == fetcher(webhookUrl \in ParsableUrls, net) IN
    IF body.thrown
    THEN \* catch (err)
         Result(FALSE, <<"Failed to send webhook: ", body.message>>, FALSE)
    ELSE IF response.thrown
    THEN \* catch (err)
         Result(FALSE, <<"Failed to send webhook: ", response.message>>, FALSE)
    ELSE IF response.error.isSet
         THEN IF response.error.status = 404 \/ response.error.status = 410
              THEN Result(FALSE,
                          <<"Webhook not found (deleted or invalid)">>, TRUE)
              ELSE Result(FALSE,
                          <<"Slack API error: ", response.error.message>>,
                          FALSE)
         ELSE Result(TRUE, <<>>, FALSE)

\* The classified outcome of spec section 4.5 read off a SendWebhookResult.
Outcome(result) ==
    CASE result.raised -> "Raised"
      [] result.webhookDeleted -> "PermanentFailure"
      [] result.success -> "Success"
      [] OTHER -> "TransientFailure"


(***************************************************************************)
(* Leaderboard URLs (lib/validation.ts).  A URL is the record of what      *)
(* new URL(url) yields: parsable, hostname, the year and the leaderboard id *)
(* of the path (0 when the path does not match the pattern) and the        *)
(* view_key parameter ("" when it is missing or empty).                    *)
(***************************************************************************)
LbUrl(hostname, year, board, viewKey) ==
    [parsable |-> TRUE, hostname |-> hostname, year |-> year,
     board |-> board, viewKey |-> viewKey]

U1 == LbUrl("adventofcode.com", 2025, 1, "k1")
\* the same private leaderboard in another year: same view key
U2 == LbUrl("adventofcode.com", 2024, 1, "k1")
U3 == LbUrl("adventofcode.com", 2025, 3, "k3")

StoredLeaderboardUrls == {U1, U2, U3}

\* strings validateLeaderboardUrl rejects: not a URL, another host, a path
\* that does not match the pattern, no view_key
RejectedLeaderboardUrls ==
    {[parsable |-> FALSE, hostname |-> "", year |-> 0, board |-> 0,
      viewKey |-> ""],
     LbUrl("www.adventofcode.com", 2025, 1, "k1"),
     LbUrl("adventofcode.com", 0, 0, "k1"),
     LbUrl("adventofcode.com", 2025, 1, "")}

LeaderboardUrls == StoredLeaderboardUrls \cup RejectedLeaderboardUrls

ViewKeys == {u.viewKey : u \in StoredLeaderboardUrls}

validateLeaderboardUrl_nokey(url) ==
    IF ~url.parsable
    THEN [valid |-> FALSE, error |-> "Invalid URL format", viewKey |-> ""]
    ELSE IF url.hostname # "adventofcode.com"
    THEN [valid |-> FALSE, error |-> "URL must be from adventofcode.com",
          viewKey |-> ""]
    ELSE IF url.year = 0
    THEN [valid |-> FALSE, error |-> "Invalid leaderboard URL path format",
          viewKey |-> ""]
    ELSE [valid |-> TRUE, error |-> "", viewKey |-> url.viewKey]

\* lib/validation.ts validateLeaderboardUrl
validateLeaderboardUrl(url) ==
    IF ~url.parsable
    THEN [valid |-> FALSE, error |-> "Invalid URL format", viewKey |-> ""]
    ELSE IF url.hostname # "adventofcode.com"
    THEN [valid |-> FALSE, error |-> "URL must be from adventofcode.com",
          viewKey |-> ""]
    ELSE IF url.year = 0
    THEN [valid |-> FALSE, error |-> "Invalid leaderboard URL path format",
          viewKey |-> ""]
    ELSE IF url.viewKey = ""
    THEN [valid |-> FALSE, error |-> "URL must include a view_key parameter",
          viewKey |-> ""]
    ELSE [valid |-> TRUE, error |-> "", viewKey |-> url.viewKey]

(***************************************************************************)
(* Leaderboards (lib/aoc.ts).  members is a sequence in the order of       *)
(* Object.values: ascending member id.                                     *)
(***************************************************************************)
Member(id, name, stars, local_score) ==
    [id |-> id, name |-> name, stars |-> stars, local_score |-> local_score]

\* what adventofcode.com serves for a leaderboard, and what it served earlier
CurrentMembers(board) ==
    IF board = 1
    THEN <<Member(1, "ann", 3, 50), Member(2, "", 5, 80), Member(3, "cy", 0, 0)>>
    ELSE <<Member(7, "dee", 0, 0)>>

EarlierMembers(board) ==
    IF board = 1
    THEN <<Member(1, "ann", 1, 10), Member(2, "", 0, 0)>>
    ELSE <<>>

AocLeaderboard(year, board, members) ==
    [event |-> year, owner_id |-> board, members |-> members]

\* Object.values(members).filter((member) => member.stars > 0)
RECURSIVE FilterStars(_)
FilterStars(seq) ==
    IF seq = <<>> THEN <<>>
    ELSE IF Head(seq).stars > 0
         THEN <<Head(seq)>> \o FilterStars(Tail(seq))
         ELSE FilterStars(Tail(seq))

\* Array.prototype.sort((a, b) => b.local_score - a.local_score): stable
RECURSIVE InsertByScore(_, _)
InsertByScore(sorted, m) ==
    IF sorted = <<>> THEN <<m>>
    ELSE IF Head(sorted).local_score >= m.local_score
         THEN <<Head(sorted)>> \o InsertByScore(Tail(sorted), m)
         ELSE <<m>> \o sorted

RECURSIVE SortByScoreDesc(_)
SortByScoreDesc(seq) ==
    IF seq = <<>> THEN <<>>
    ELSE InsertByScore(SortByScoreDesc(SubSeq(seq, 1, Len(seq) - 1)),
                       seq[Len(seq)])

sortLeaderboard_nofilter(leaderboard) == SortByScoreDesc(leaderboard.members)

sortLeaderboard_unsorted(leaderboard) == FilterStars(leaderboard.members)

\* lib/aoc.ts sortLeaderboard
sortLeaderboard(leaderboard) ==
    SortByScoreDesc(FilterStars(leaderboard.members))

\* lib/aoc.ts formatPosition: a medal for the first three, "n." after them
formatPosition(position) ==
    CASE position = 1 -> [medal |-> "gold", ordinal |-> 0]
      [] position = 2 -> [medal |-> "silver", ordinal |-> 0]
      [] position = 3 -> [medal |-> "bronze", ordinal |-> 0]
      [] OTHER -> [medal |-> "", ordinal |-> position]

\* lib/aoc.ts getMemberName
getMemberName(member) ==
    IF member.name # "" THEN [name |-> member.name, anonymous |-> 0]
    ELSE [name |-> "(anonymous user #)", anonymous |-> member.id]

\* sorted.slice(0, 15)
TopCount == 15

Min(a, b) == IF a < b THEN a ELSE b

ListText_noplaceholder(lines, placeholder) == [text |-> "", lines |-> lines]

\* leaderboardText || placeholder: the lines joined by "\n" are the empty
\* string exactly when there is no line
ListText(lines, placeholder) ==
    [text |-> IF Len(lines) = 0 THEN placeholder ELSE "", lines |-> lines]

ParticipantCounts_listed(leaderboard, sorted) ==
    [active |-> Min(TopCount, Len(sorted)), total |-> Len(leaderboard.members)]

\* activeParticipants = sorted.length and totalParticipants =
\* Object.keys(leaderboard.members).length of both formatters
ParticipantCounts(leaderboard, sorted) ==
    [active |-> Len(sorted), total |-> Len(leaderboard.members)]

\* lib/discord.ts formatLeaderboardEmbed; roleId and joinCode are "" when the
\* caller passes null or leaves them out.  description is the joined list, or
\* the placeholder when the list is the empty string.
formatLeaderboardEmbed(leaderboard, roleId, joinCode) ==
    LET sorted == sortLeaderboard(leaderboard)
        topMembers == SubSeq(sorted, 1, Min(TopCount, Len(sorted)))
        leaderboardText ==
            [index \in 1..Len(topMembers) |->
                [position |-> formatPosition(index),
                 name |-> getMemberName(topMembers[index]),
                 pts |-> topMembers[index].local_score,
                 stars |-> topMembers[index].stars]]
        totalParticipants == ParticipantCounts(leaderboard, sorted).total
        activeParticipants == ParticipantCounts(leaderboard, sorted).active
    IN [kind |-> "leaderboard",
        cyclic |-> FALSE,
        content |-> roleId,
        title |-> [text |-> "Advent of Code Leaderboard",
                   n |-> leaderboard.event],
        description |-> ListText(leaderboardText,
                                 "No participants with stars yet!"),
        stats |-> [active |-> activeParticipants,
                   total |-> totalParticipants],
        joinCode |-> joinCode,
        link |-> [year |-> 0, day |-> 0],
        username |-> "Adventcord"]

\* lib/slack.ts formatLeaderboardSlackMessage: text, a header block, a
\* section block with the list and a context block
formatLeaderboardSlackMessage(leaderboard, pingChannel, joinCode) ==
    LET sorted == sortLeaderboard(leaderboard)
        topMembers == SubSeq(sorted, 1, Min(TopCount, Len(sorted)))
        leaderboardText ==
            [index \in 1..Len(topMembers) |->
                [position |-> formatPosition(index),
                 name |-> getMemberName(topMembers[index]),
                 pts |-> topMembers[index].local_score,
                 stars |-> topMembers[index].stars]]
        totalParticipants == ParticipantCounts(leaderboard, sorted).total
        activeParticipants == ParticipantCounts(leaderboard, sorted).active
    IN [kind |-> "leaderboard",
        cyclic |-> FALSE,
        text |-> [channel |-> pingChannel,
                  text |-> "Advent of Code Leaderboard Update",
                  n |-> leaderboard.event],
        header |-> [text |-> "Advent of Code Leaderboard",
                    n |-> leaderboard.event],
        section |-> ListText(leaderboardText,
                             "_No participants with stars yet!_"),
        context |-> [active |-> activeParticipants,
                     total |-> totalParticipants,
                     joinCode |-> joinCode],
        username |-> "Adventcord",
        icon_emoji |-> ":christmas_tree:"]

\* lib/discord.ts formatPuzzleNotificationEmbed
formatPuzzleNotificationEmbed(day, year, roleId) ==
    [kind |-> "puzzle",
     cyclic |-> FALSE,
     content |-> roleId,
     title |-> [text |-> "Day is Live!", n |-> day],
     description |-> [text |-> "A new Advent of Code puzzle has been released!",
                      lines |-> <<>>],
     stats |-> [active |-> 0, total |-> 0],
     joinCode |-> "",
     link |-> [year |-> year, day |-> day],
     username |-> "Adventcord"]

(***************************************************************************)
(* The tables (db/schema.ts) and what a run can find in them.              *)
(***************************************************************************)
\* hours of the day the model distinguishes: 0..MaxHour of the code's 0..23
MaxHour == 1
Hours == 0..MaxHour

\* the rows a run can find: w1 a Discord webhook, w2 a Slack webhook, and
\* (in the three-group runs) w3 a second Discord webhook
WebhookIds == {"w1", "w2"}
IdOrder == <<"w1", "w2", "w3">>

\* hours is the JSON text of an array of hours; JSON_parse gives the array back
JSON_text(value) == [json |-> value]
JSON_parse(text) == text.json

\* puzzle_notification_hour: {} is SQL null (disabled), {h} is hour h
PuzzleHours == {{}, {0}}
HourLists == {<<h>> : h \in Hours}

\* the columns of a row that the run does not branch on, fixed per id
WebhookUrlOf(id) ==
    CASE id = "w1" -> "https://discord.com/api/webhooks/1/a"
      [] id = "w2" -> "https://hooks.slack.com/services/T1/B1/x"
      [] OTHER -> "https://discord.com/api/webhooks/2/b"

Row(id, hours, leaderboardUrl, puzzleNotificationHour) ==
    [id |-> id,
     webhookUrl |-> WebhookUrlOf(id),
     type |-> IF id = "w2" THEN "slack" ELSE "discord",
     roleId |-> IF id = "w1" THEN "123456789012345678" ELSE "",
     pingChannel |-> id = "w2",
     hours |-> JSON_text(hours),
     leaderboardUrl |-> leaderboardUrl,
     joinCode |-> IF id = "w1" THEN "1234-abcd" ELSE "",
     puzzleNotificationHour |-> puzzleNotificationHour]

RowsOf(id) ==
    {Row(id, h, u, p) : h \in HourLists,
                        u \in (IF id = "w1" THEN {U1}
                               ELSE StoredLeaderboardUrls),
                        p \in PuzzleHours}

\* the tables a run can start from: rows with distinct ids and distinct
\* destination URLs (primary key, unique webhook_url)
Tables ==
    UNION {{t \in [ids -> UNION {RowsOf(id) : id \in ids}] :
                \A id \in ids : t[id] \in RowsOf(id)} :
           ids \in SUBSET WebhookIds}

\* z.array(z.number().min(0).max(23)).min(1) takes the hours in any order
\* and with repetitions
RepeatedHourLists == {<<0, 0>>, <<MaxHour, 0>>}

\* three webhooks on three different leaderboard URLs, w1 and w2 with or
\* without a puzzle notification hour, w3 also with hours out of order or
\* repeated
ThreeTables ==
    {[id \in {"w1", "w2", "w3"} |->
        CASE id = "w1" -> Row("w1", h[1], U1, p[1])
          [] id = "w2" -> Row("w2", h[2], U2, p[2])
          [] OTHER -> Row("w3", h3, U3, {})] :
     h \in [1..2 -> HourLists], h3 \in HourLists \cup RepeatedHourLists,
     p \in [1..2 -> PuzzleHours]}

\* db.query.webhooks.findMany(): the rows in rowid order
findMany(table) ==
    LET present == SelectSeq(IdOrder, LAMBDA id : id \in DOMAIN table)
    IN [k \in 1..Len(present) |-> table[present[k]]]

deleteWebhook_keep(table, id) == table

deleteWebhook_disable(table, id) ==
    [x \in DOMAIN table |->
        IF x = id THEN [table[x] EXCEPT !.hours = JSON_text(<<>>)]
        ELSE table[x]]

\* db.delete(webhooks).where(eq(webhooks.id, id))

deleteWebhook(table, id) ==
    [x \in DOMAIN table \ {id} |-> table[x]]

\* logs.webhook_id references webhooks.id with onDelete cascade: with foreign
\* keys enforced, deleting a webhook deletes its log rows
cascadeLogs(log, id) ==
    IF foreignKeys THEN SelectSeq(log, LAMBDA l : l.webhookId # id) ELSE log

\* createLog: db.insert(logs); with foreign keys enforced the insert of a row
\* whose webhook_id is not in webhooks is rejected and the promise rejects
createLog(table, log, webhookId, type, message) ==
    IF foreignKeys /\ webhookId \notin DOMAIN table
    THEN [thrown |-> TRUE, logs |-> log]
    ELSE [thrown |-> FALSE,
          logs |-> Append(log, [webhookId |-> webhookId, type |-> type,
                                message |-> message])]

(***************************************************************************)
(* The leaderboard cache and fetcher (scripts/cron.ts, lib/aoc.ts).        *)
(***************************************************************************)
DefaultTtl == 5 * 60 * 1000

CACHE_TTL_MS_default == DefaultTtl

\* const CACHE_TTL_MS = cliArgs.skipCache ? 0 : 5 * 60 * 1000
CACHE_TTL_MS == IF cliArgs.skipCache THEN 0 ELSE DefaultTtl

\* what adventofcode.com does with a request for the JSON of a leaderboard
UpstreamBehaviours ==
    {[kind |-> "response", status |-> 200],
     [kind |-> "response", status |-> 500],
     [kind |-> "throw", status |-> 0]}

NoData == AocLeaderboard(0, 0, <<>>)

\* lib/aoc.ts fetchLeaderboard
fetchLeaderboard(leaderboardUrl, upstream) ==
    LET validation == validateLeaderboardUrl(leaderboardUrl)
        response == fetcher(TRUE, upstream)
    IN IF ~validation.valid
       THEN [hasData |-> FALSE, data |-> NoData,
             error |-> <<validation.error>>, requests |-> 0]
       ELSE IF response.thrown
       THEN [hasData |-> FALSE, data |-> NoData,
             error |-> <<"Failed to fetch leaderboard: ", response.message>>,
             requests |-> response.requests]
       ELSE IF response.error.isSet
       THEN [hasData |-> FALSE, data |-> NoData,
             error |-> <<"Failed to fetch leaderboard: ",
                         response.error.message>>,
             requests |-> response.requests]
       ELSE [hasData |-> TRUE,
             data |-> AocLeaderboard(leaderboardUrl.year, leaderboardUrl.board,
                                     CurrentMembers(leaderboardUrl.board)),
             error |-> <<>>, requests |-> response.requests]

\* integer("fetched_at", { mode: "timestamp" }): a Date is stored as whole
\* seconds and read back as that second
TimestampColumn(t) == (t \div 1000) * 1000

CacheRow(viewKey, data, fetchedAt) ==
    [id |-> viewKey, viewKey |-> viewKey, data |-> JSON_text(data),
     fetchedAt |-> TimestampColumn(fetchedAt)]

\* db.query.leaderboardCache.findFirst({ where: eq(viewKey, ...) })
findCached(cache, viewKey) == {x \in DOMAIN cache : cache[x].viewKey = viewKey}

upsertCache_insert(cache, viewKey, data, fetchedAt) ==
    LET id == IF findCached(cache, viewKey) = {} THEN viewKey
              ELSE "another row"
    IN [x \in DOMAIN cache \cup {id} |->
           IF x = id THEN [CacheRow(viewKey, data, fetchedAt) EXCEPT !.id = id]
           ELSE cache[x]]

\* insert values { id: viewKey, ... } onConflictDoUpdate(target: viewKey):
\* the row that has the view key gets data and fetchedAt, and when there is
\* none the new row is inserted
upsertCache(cache, viewKey, data, fetchedAt) ==
    IF findCached(cache, viewKey) # {}
    THEN [x \in DOMAIN cache |->
            IF x \in findCached(cache, viewKey)
            THEN [cache[x] EXCEPT !.data = JSON_text(data),
                                  !.fetchedAt = TimestampColumn(fetchedAt)]
            ELSE cache[x]]
    ELSE [x \in DOMAIN cache \cup {viewKey} |->
            IF x = viewKey THEN CacheRow(viewKey, data, fetchedAt)
            ELSE cache[x]]

\* the time fetchLeaderboard takes: new Date() of the upsert is later than
\* Date.now() of the cache check
FetchDuration == 200

isCacheHit_atTtl(cached, t) == t - cached.fetchedAt <= CACHE_TTL_MS

\* const age = Date.now() - cached.fetchedAt.getTime(); age < CACHE_TTL_MS
isCacheHit(cached, t) == t - cached.fetchedAt < CACHE_TTL_MS

getLeaderboard_upsertAlways(leaderboardUrl, upstream, cache, t) ==
    LET viewKey == validateLeaderboardUrl(leaderboardUrl).viewKey
        result == fetchLeaderboard(leaderboardUrl, upstream)
    IN [hasData |-> result.hasData, data |-> result.data,
        error |-> result.error,
        cache |-> upsertCache(cache, viewKey, result.data, t + FetchDuration),
        fetched |-> TRUE, requests |-> result.requests, queries |-> 1,
        returned |-> t + FetchDuration + RetryTime(result.requests)]

\* scripts/cron.ts getLeaderboard, called at time t with the cache table as
\* it is; fetched tells whether fetchLeaderboard was invoked, requests how
\* many requests went to adventofcode.com, queries how many times the cache
\* table was read, returned when the call returns
getLeaderboard(leaderboardUrl, upstream, cache, t) ==
    LET validation == validateLeaderboardUrl(leaderboardUrl)
        viewKey == validation.viewKey
        result == fetchLeaderboard(leaderboardUrl, upstream)
        cached == cache[CHOOSE x \in findCached(cache, viewKey) : TRUE]
    IN IF ~validation.valid \/ viewKey = ""
       THEN [hasData |-> FALSE, data |-> NoData,
             error |-> <<IF validation.error # "" THEN validation.error
                         ELSE "Invalid leaderboard URL">>,
             cache |-> cache, fetched |-> FALSE, requests |-> 0,
             queries |-> 0, returned |-> t]
       ELSE IF findCached(cache, viewKey) # {} /\ isCacheHit(cached, t)
       THEN [hasData |-> TRUE, data |-> JSON_parse(cached.data),
             error |-> <<>>, cache |-> cache, fetched |-> FALSE,
             requests |-> 0, queries |-> 1, returned |-> t]
       ELSE [hasData |-> result.hasData, data |-> result.data,
             error |-> result.error,
             cache |-> IF result.hasData
                       THEN upsertCache(cache, viewKey, result.data,
                                        t + FetchDuration)
                       ELSE cache,
             fetched |-> TRUE, requests |-> result.requests,
             queries |-> 1,
             returned |-> t + FetchDuration + RetryTime(result.requests)]

(***************************************************************************)
(* One run of scripts/cron.ts.                                             *)
(***************************************************************************)
currentHour == eastern.hour

isDryRun_never == FALSE

\* if (cliArgs.dryRun) in both loops
isDryRun == cliArgs.dryRun

\* scripts/cron.ts isAocSeason
isAocSeason(month, day) == month = 12 /\ day >= 1 /\ day <= 25

isDuringAoc == cliArgs.forceAoc \/ isAocSeason(eastern.month, eastern.day)

\* lib/aoc-config.ts AOC_CONFIG with no NEXT_PUBLIC_AOC_* variable set
AOC_CONFIG == [startDay |-> 1, endDay |-> 12, month |-> 12]

\* lib/aoc-config.ts isAocPuzzleSeason
isAocPuzzleSeason(month, day) ==
    /\ month = AOC_CONFIG.month
    /\ day >= AOC_CONFIG.startDay
    /\ day <= AOC_CONFIG.endDay

\* lib/aoc-config.ts isAocLeaderboardSeason: the puzzle days and the day
\* after the last puzzle
isAocLeaderboardSeason(month, day) ==
    /\ month = AOC_CONFIG.month
    /\ day >= AOC_CONFIG.startDay
    /\ day <= AOC_CONFIG.endDay + 1

\* the dates a run is started on: the day after the last puzzle of
\* AOC_CONFIG, and the day after December 25
Dates == {<<12, 13>>, <<12, 26>>}

\* what a destination does with a POST during a run
DestinationBehaviours ==
    {[kind |-> "response", status |-> 200],
     [kind |-> "response", status |-> 404],
     [kind |-> "response", status |-> 410],
     [kind |-> "throw", status |-> 0]}

\* setTimeout(resolve, 500) after every delivery: the time a delivery takes
DeliveryDelay == 500

\* when an earlier run fetched what the cache holds
EarlierFetch == 2 * DefaultTtl

EmptyCache == [k \in {} |-> CacheRow("", NoData, 0)]

\* the cache table and the clock a run can start from: an empty table, or a
\* row for k1 fetched one millisecond less than the default TTL ago, or
\* exactly the default TTL ago
InitialCaches ==
    {[cache |-> EmptyCache, now |-> EarlierFetch + DefaultTtl]}
    \cup {[cache |-> [k \in {"k1"} |->
                        CacheRow("k1",
                                 AocLeaderboard(2025, 1, EarlierMembers(1)),
                                 EarlierFetch)],
            now |-> EarlierFetch + age] : age \in {DefaultTtl - 1, DefaultTtl}}

Includes(seq, x) == \E k \in 1..Len(seq) : seq[k] = x

\* allWebhooks.filter(webhook.puzzleNotificationHour === currentHour)
puzzleWebhooks ==
    SelectSeq(allWebhooks,
              LAMBDA webhook : webhook.puzzleNotificationHour = {currentHour})

\* allWebhooks.filter(JSON.parse(webhook.hours).includes(currentHour))
activeWebhooks ==
    SelectSeq(allWebhooks,
              LAMBDA webhook : Includes(JSON_parse(webhook.hours), currentHour))

\* the Map from leaderboardUrl to its webhooks, in insertion order
RECURSIVE GroupByLeaderboard(_, _)
GroupByLeaderboard(groups, rest) ==
    IF rest = <<>> THEN groups
    ELSE LET webhook == Head(rest)
             at == {k \in 1..Len(groups) :
                        groups[k].leaderboardUrl = webhook.leaderboardUrl}
         IN IF at = {}
            THEN GroupByLeaderboard(
                     Append(groups,
                            [leaderboardUrl |-> webhook.leaderboardUrl,
                             webhooks |-> <<webhook>>]),
                     Tail(rest))
            ELSE GroupByLeaderboard(
                     [groups EXCEPT ![CHOOSE k \in at : TRUE].webhooks =
                                        Append(@, webhook)],
                     Tail(rest))

ZeroStats == [success |-> 0, errors |-> 0, deleted |-> 0]

NoSummary == [printed |-> "", puzzle |-> ZeroStats, updates |-> ZeroStats,
              deleted |-> 0]

\* what both passes do with the result of a delivery: delete the webhook and
\* log webhook_deleted, or log success, or log the error
HandleResult(webhook, result, successMessage) ==
    IF result.webhookDeleted
    THEN LET table == deleteWebhook(webhooks, webhook.id)
             made == createLog(table, cascadeLogs(logs, webhook.id),
                               webhook.id, "webhook_deleted",
                               <<"Webhook was deleted from Discord">>)
         IN [webhooks |-> table, logs |-> made.logs, thrown |-> made.thrown,
             counter |-> "deleted"]
    ELSE IF result.success
    THEN LET made == createLog(webhooks, logs, webhook.id, "success",
                               successMessage)
         IN [webhooks |-> webhooks, logs |-> made.logs,
             thrown |-> made.thrown, counter |-> "success"]
    ELSE LET made == createLog(webhooks, logs, webhook.id, "error",
                               IF result.error # <<>> THEN result.error
                               ELSE <<"Unknown error">>)
         IN [webhooks |-> webhooks, logs |-> made.logs,
             thrown |-> made.thrown, counter |-> "errors"]

Count(stats, counter) == [stats EXCEPT ![counter] = @ + 1]

\* one call of a delivery client: for which webhook, in which pass, by which
\* client, with what payload, what the destination did, how many requests
\* the fetcher sent, the result, when the client was called and when its
\* promise settled
Delivery(webhook, pass, client, payload, net, result) ==
    LET requests == IF JSON_stringify(payload).thrown THEN 0
                    ELSE fetcher(webhook.webhookUrl \in ParsableUrls,
                                 net).requests
    IN [id |-> webhook.id, pass |-> pass, webhookUrl |-> webhook.webhookUrl,
        client |-> client, payload |-> payload, net |-> net,
        requests |-> requests, outcome |-> Outcome(result),
        at |-> now, returned |-> now + RetryTime(requests)]

persisted == <<webhooks, leaderboardCache, logs>>
environment == <<foreignKeys, cliArgs, eastern, webhooks0>>
locals == <<allWebhooks, puzzleStats, i, webhooksByLeaderboard, g,
            leaderboardResult, j, counts, summary>>
history == <<deliveries, lbCalls>>
varsRun == <<persisted, environment, now, pc, locals, history>>
vars == <<varsRun, req, res>>

IdleDeliver ==
    /\ req = [client |-> "discord",
              webhookUrl |-> "https://discord.com/api/webhooks/1/a",
              payload |-> [kind |-> "test", cyclic |-> FALSE],
              net |-> [kind |-> "response", status |-> 200],
              called |-> TRUE]
    /\ res = Result(TRUE, <<>>, FALSE)

\* main() has not started: its locals are empty and nothing was sent
Fresh ==
    /\ webhooks0 = webhooks
    /\ logs = <<>>
    /\ pc = "start"
    /\ allWebhooks = <<>>
    /\ puzzleStats = ZeroStats
    /\ i = 1
    /\ webhooksByLeaderboard = <<>>
    /\ g = 1
    /\ leaderboardResult = NoData
    /\ j = 1
    /\ counts = ZeroStats
    /\ summary = NoSummary
    /\ deliveries = <<>>
    /\ lbCalls = <<>>

Init ==
    /\ webhooks \in Tables
    /\ \E c \in InitialCaches : leaderboardCache = c.cache /\ now = c.now
    /\ foreignKeys \in BOOLEAN
    /\ cliArgs \in [dryRun : BOOLEAN, skipCache : BOOLEAN, forceAoc : BOOLEAN]
    /\ eastern \in {[hour |-> 0, month |-> d[1], day |-> d[2], year |-> 2025] :
                        d \in Dates}
    /\ Fresh
    /\ IdleDeliver

\* a run over three leaderboard groups, in the season, with an empty cache
InitThree ==
    /\ webhooks \in ThreeTables
    /\ leaderboardCache = EmptyCache
    /\ now = EarlierFetch + DefaultTtl
    /\ foreignKeys \in BOOLEAN
    /\ cliArgs \in [dryRun : BOOLEAN, skipCache : {FALSE}, forceAoc : {FALSE}]
    /\ eastern = [hour |-> 0, month |-> 12, day |-> 12, year |-> 2025]
    /\ Fresh
    /\ IdleDeliver

\* main(): load the webhooks, then the puzzle pass if isDuringAoc
LoadWebhooks ==
    /\ pc = "start"
    /\ allWebhooks' = findMany(webhooks)
    /\ pc' = IF isDuringAoc THEN "puzzle" ELSE "select"
    /\ UNCHANGED <<persisted, environment, now, puzzleStats, i,
                   webhooksByLeaderboard, g, leaderboardResult, j, counts,
                   summary, history, req, res>>

\* sendPuzzleNotifications, one iteration of its loop in dry-run mode
PuzzleDryRun ==
    /\ pc = "puzzle"
    /\ i <= Len(puzzleWebhooks)
    /\ isDryRun
    /\ puzzleStats' = Count(puzzleStats, "success")
    /\ i' = i + 1
    /\ UNCHANGED <<persisted, environment, now, pc, allWebhooks,
                   webhooksByLeaderboard, g, leaderboardResult, j, counts,
                   summary, history, req, res>>

\* sendPuzzleNotifications, one iteration of its loop: format, send, handle
PuzzleSend ==
    /\ pc = "puzzle"
    /\ i <= Len(puzzleWebhooks)
    /\ ~isDryRun
    /\ \E net \in DestinationBehaviours :
        LET webhook == puzzleWebhooks[i]
            payload == formatPuzzleNotificationEmbed(eastern.day, eastern.year,
                                                     webhook.roleId)
            result == sendDiscordWebhook(webhook.webhookUrl, payload, net)
            handled == HandleResult(webhook, result,
                                    <<"Day puzzle notification sent">>)
        IN /\ deliveries' = Append(deliveries,
                                   Delivery(webhook, "puzzle", "discord",
                                            payload, net, result))
           /\ now' = now + DeliveryDelay
                          + RetryTime(fetcher(webhook.webhookUrl
                                                  \in ParsableUrls,
                                              net).requests)
           /\ IF result.raised
              THEN /\ pc' = "failed"
                   /\ UNCHANGED <<webhooks, logs, puzzleStats, i>>
              ELSE /\ webhooks' = handled.webhooks
                   /\ logs' = handled.logs
                   /\ IF handled.thrown
                      THEN /\ pc' = "failed"
                           /\ UNCHANGED <<puzzleStats, i>>
                      ELSE /\ puzzleStats' = Count(puzzleStats, handled.counter)
                           /\ i' = i + 1
                           /\ pc' = pc
    /\ UNCHANGED <<leaderboardCache, environment, allWebhooks,
                   webhooksByLeaderboard, g, leaderboardResult, j, counts,
                   summary, lbCalls, req, res>>

PuzzleReturn_early ==
    /\ pc = "puzzle"
    /\ pc' = "select"
    /\ UNCHANGED <<persisted, environment, now, locals, history, req, res>>

\* sendPuzzleNotifications returns its stats (at once when no webhook is
\* scheduled for this hour)
PuzzleReturn ==
    /\ pc = "puzzle"
    /\ i > Len(puzzleWebhooks)
    /\ pc' = "select"
    /\ UNCHANGED <<persisted, environment, now, locals, history, req, res>>

\* main(): nothing active and no puzzle notification sent or failed
ExitNothingToDo ==
    /\ pc = "select"
    /\ Len(activeWebhooks) = 0
    /\ puzzleStats.success = 0
    /\ puzzleStats.errors = 0
    /\ pc' = "done"
    /\ summary' = [NoSummary EXCEPT !.printed = "No webhooks to process"]
    /\ UNCHANGED <<persisted, environment, now, allWebhooks, puzzleStats, i,
                   webhooksByLeaderboard, g, leaderboardResult, j, counts,
                   history, req, res>>

\* main(): only puzzle notifications were sent
ExitPuzzleOnly ==
    /\ pc = "select"
    /\ Len(activeWebhooks) = 0
    /\ ~(puzzleStats.success = 0 /\ puzzleStats.errors = 0)
    /\ pc' = "done"
    /\ summary' = [printed |-> "Summary", puzzle |-> puzzleStats,
                   updates |-> ZeroStats, deleted |-> puzzleStats.deleted]
    /\ UNCHANGED <<persisted, environment, now, allWebhooks, puzzleStats, i,
                   webhooksByLeaderboard, g, leaderboardResult, j, counts,
                   history, req, res>>

\* main(): group the active webhooks by leaderboard URL
GroupWebhooks ==
    /\ pc = "select"
    /\ Len(activeWebhooks) > 0
    /\ webhooksByLeaderboard' = GroupByLeaderboard(<<>>, activeWebhooks)
    /\ g' = 1
    /\ pc' = "group"
    /\ UNCHANGED <<persisted, environment, now, allWebhooks, puzzleStats, i,
                   leaderboardResult, j, counts, summary, history, req, res>>

\* createLog for every webhook of a group whose leaderboard could not be fetched
RECURSIVE LogFetchError(_, _, _)
LogFetchError(log, hooks, error) ==
    IF hooks = <<>> THEN [thrown |-> FALSE, logs |-> log, logged |-> 0]
    ELSE LET made == createLog(webhooks, log, Head(hooks).id, "error",
                               <<"Failed to fetch leaderboard: ">> \o error)
             rest == LogFetchError(made.logs, Tail(hooks), error)
         IN IF made.thrown
            THEN [thrown |-> TRUE, logs |-> log, logged |-> 0]
            ELSE [rest EXCEPT !.logged = @ + 1]

\* main(): the next group: getLeaderboard, and on an error one error log per
\* webhook of the group
ProcessLeaderboard ==
    /\ pc = "group"
    /\ g <= Len(webhooksByLeaderboard)
    /\ \E upstream \in UpstreamBehaviours :
        LET group == webhooksByLeaderboard[g]
            got == getLeaderboard(group.leaderboardUrl, upstream,
                                  leaderboardCache, now)
            made == LogFetchError(logs, group.webhooks, got.error)
        IN /\ leaderboardCache' = got.cache
           /\ now' = got.returned
           /\ lbCalls' = Append(lbCalls,
                  [leaderboardUrl |-> group.leaderboardUrl,
                   at |-> now,
                   returned |-> got.returned,
                   before |-> leaderboardCache,
                   after |-> got.cache,
                   fetched |-> got.fetched,
                   requests |-> got.requests,
                   upstream |-> upstream,
                   hasData |-> got.hasData,
                   data |-> got.data])
           /\ IF got.hasData
              THEN /\ leaderboardResult' = got.data
                   /\ j' = 1
                   /\ pc' = "send"
                   /\ UNCHANGED <<logs, counts, g>>
              ELSE IF isDryRun
              THEN /\ counts' = [counts EXCEPT
                                    !.errors = @ + Len(group.webhooks)]
                   /\ g' = g + 1
                   /\ UNCHANGED <<logs, leaderboardResult, j, pc>>
              ELSE IF made.thrown
              THEN /\ pc' = "failed"
                   /\ logs' = made.logs
                   /\ UNCHANGED <<counts, g, leaderboardResult, j>>
              ELSE /\ logs' = made.logs
                   /\ counts' = [counts EXCEPT
                                    !.errors = @ + Len(group.webhooks)]
                   /\ g' = g + 1
                   /\ UNCHANGED <<leaderboardResult, j, pc>>
    /\ UNCHANGED <<webhooks, environment, allWebhooks, puzzleStats, i,
                   webhooksByLeaderboard, summary, deliveries, req, res>>

\* the end of an iteration of the inner loop: the next webhook of the group,
\* or after the last one the next group
NextWebhook ==
    IF j < Len(webhooksByLeaderboard[g].webhooks)
    THEN j' = j + 1 /\ g' = g /\ pc' = pc
    ELSE j' = j + 1 /\ g' = g + 1 /\ pc' = "group"

\* main(): one webhook of the group in dry-run mode
SendDryRun ==
    /\ pc = "send"
    /\ j <= Len(webhooksByLeaderboard[g].webhooks)
    /\ isDryRun
    /\ counts' = Count(counts, "success")
    /\ NextWebhook
    /\ UNCHANGED <<persisted, environment, now, allWebhooks, puzzleStats,
                   i, webhooksByLeaderboard, leaderboardResult, summary,
                   history, req, res>>

\* main(): one webhook of the group: format, send, handle
SendLeaderboard ==
    /\ pc = "send"
    /\ j <= Len(webhooksByLeaderboard[g].webhooks)
    /\ ~isDryRun
    /\ \E net \in DestinationBehaviours :
        LET webhook == webhooksByLeaderboard[g].webhooks[j]
            payload == formatLeaderboardEmbed(leaderboardResult,
                                              webhook.roleId, "")
            result == sendDiscordWebhook(webhook.webhookUrl, payload, net)
            handled == HandleResult(webhook, result,
                                    <<"Leaderboard update sent successfully">>)
        IN /\ deliveries' = Append(deliveries,
                                   Delivery(webhook, "leaderboard", "discord",
                                            payload, net, result))
           /\ now' = now + DeliveryDelay
                          + RetryTime(fetcher(webhook.webhookUrl
                                                  \in ParsableUrls,
                                              net).requests)
           /\ IF result.raised
              THEN /\ pc' = "failed"
                   /\ UNCHANGED <<webhooks, logs, counts, j, g>>
              ELSE /\ webhooks' = handled.webhooks
                   /\ logs' = handled.logs
                   /\ IF handled.thrown
                      THEN /\ pc' = "failed"
                           /\ UNCHANGED <<counts, j, g>>
                      ELSE /\ counts' = Count(counts, handled.counter)
                           /\ NextWebhook
    /\ UNCHANGED <<leaderboardCache, environment, allWebhooks,
                   puzzleStats, i, webhooksByLeaderboard,
                   leaderboardResult, summary, lbCalls, req, res>>

\* main(): all groups done, print the summary
PrintSummary ==
    /\ pc = "group"
    /\ g > Len(webhooksByLeaderboard)
    /\ pc' = "done"
    /\ summary' = [printed |-> "Summary",
                   puzzle |-> IF isDuringAoc THEN puzzleStats ELSE ZeroStats,
                   updates |-> counts,
                   deleted |-> counts.deleted + puzzleStats.deleted]
    /\ UNCHANGED <<persisted, environment, now, allWebhooks, puzzleStats, i,
                   webhooksByLeaderboard, g, leaderboardResult, j, counts,
                   history, req, res>>

Next ==
    \/ LoadWebhooks
    \/ PuzzleDryRun
    \/ PuzzleSend
    \/ PuzzleReturn
    \/ ExitNothingToDo
    \/ ExitPuzzleOnly
    \/ GroupWebhooks
    \/ ProcessLeaderboard
    \/ SendDryRun
    \/ SendLeaderboard
    \/ PrintSummary

Spec == Init /\ [][Next]_vars

SpecThree == InitThree /\ [][Next]_vars

(***************************************************************************)
(* The delivery clients on their own: every endpoint, payload and network  *)
(* behaviour, one call.                                                    *)
(***************************************************************************)
Clients == {"discord", "slack"}

Payloads == [kind : {"leaderboard", "puzzle", "test"}, cyclic : BOOLEAN]

NoResult == [raised |-> FALSE, success |-> FALSE, error |-> <<"pending">>,
             webhookDeleted |-> FALSE]

deliver(client, webhookUrl, payload, net) ==
    IF client = "slack"
    THEN sendSlackWebhook(webhookUrl, payload, net)
    ELSE sendDiscordWebhook(webhookUrl, payload, net)

IdleRun ==
    /\ webhooks = [k \in {} |-> Row("w1", <<0>>, U1, {})]
    /\ webhooks0 = webhooks
    /\ leaderboardCache = EmptyCache
    /\ logs = <<>>
    /\ foreignKeys = FALSE
    /\ now = EarlierFetch
    /\ cliArgs = [dryRun |-> FALSE, skipCache |-> FALSE, forceAoc |-> FALSE]
    /\ eastern = [hour |-> 0, month |-> 12, day |-> 1, year |-> 2025]
    /\ pc = "done"
    /\ allWebhooks = <<>>
    /\ puzzleStats = ZeroStats
    /\ i = 1
    /\ webhooksByLeaderboard = <<>>
    /\ g = 1
    /\ leaderboardResult = NoData
    /\ j = 1
    /\ counts = ZeroStats
    /\ summary = NoSummary
    /\ deliveries = <<>>
    /\ lbCalls = <<>>

InitDeliver ==
    /\ IdleRun
    /\ req \in [client : Clients, webhookUrl : EndpointUrls,
                 payload : Payloads, net : NetBehaviours, called : {FALSE}]
    /\ res = NoResult

Deliver ==
    /\ ~req.called
    /\ req' = [req EXCEPT !.called = TRUE]
    /\ res' = deliver(req.client, req.webhookUrl, req.payload, req.net)
    /\ UNCHANGED varsRun

SpecDeliver == InitDeliver /\ [][Deliver]_vars

(***************************************************************************)
(* getLeaderboard and fetchLeaderboard on their own: every URL, cache and  *)
(* upstream behaviour, one call.                                           *)
(***************************************************************************)
NoFetchResult == [hasData |-> FALSE, data |-> NoData, error |-> <<"pending">>,
                  requests |-> 0, queries |-> 0]

InitFetch ==
    /\ webhooks = [k \in {} |-> Row("w1", <<0>>, U1, {})]
    /\ \E c \in InitialCaches : leaderboardCache = c.cache /\ now = c.now
    /\ foreignKeys = FALSE
    /\ cliArgs \in [dryRun : {FALSE}, skipCache : BOOLEAN, forceAoc : {FALSE}]
    /\ eastern = [hour |-> 0, month |-> 12, day |-> 1, year |-> 2025]
    /\ Fresh
    /\ req \in [fn : {"getLeaderboard", "fetchLeaderboard"},
                 leaderboardUrl : LeaderboardUrls,
                 upstream : UpstreamBehaviours, called : {FALSE}]
    /\ res = NoFetchResult

\* one call of getLeaderboard(leaderboardUrl)
CallGetLeaderboard ==
    /\ ~req.called
    /\ req.fn = "getLeaderboard"
    /\ LET got == getLeaderboard(req.leaderboardUrl, req.upstream,
                                 leaderboardCache, now)
       IN /\ leaderboardCache' = got.cache
          /\ now' = got.returned
          /\ res' = [hasData |-> got.hasData, data |-> got.data,
                     error |-> got.error, requests |-> got.requests,
                     queries |-> got.queries]
    /\ req' = [req EXCEPT !.called = TRUE]
    /\ UNCHANGED <<webhooks, logs, environment, pc, locals, history>>

\* one call of fetchLeaderboard(leaderboardUrl)
CallFetchLeaderboard ==
    /\ ~req.called
    /\ req.fn = "fetchLeaderboard"
    /\ LET result == fetchLeaderboard(req.leaderboardUrl, req.upstream)
       IN res' = [hasData |-> result.hasData, data |-> result.data,
                  error |-> result.error, requests |-> result.requests,
                  queries |-> 0]
    /\ req' = [req EXCEPT !.called = TRUE]
    /\ UNCHANGED varsRun

NextFetch == CallGetLeaderboard \/ CallFetchLeaderboard

SpecFetch == InitFetch /\ [][NextFetch]_vars

(***************************************************************************)
(* Two getLeaderboard calls of two overlapping runs on one database: each  *)
(* call awaits its cache query, its fetch and its upsert, and the steps of *)
(* the two calls interleave.                                               *)
(***************************************************************************)
Callers == {1, 2}

\* the URLs of the two calls: the same view key, the same or another year
RaceUrls == {U1, U2}

\* text("view_key").notNull().unique() holds of the table
viewKey_unique(cache) ==
    \A x, y \in DOMAIN cache : cache[x].viewKey = cache[y].viewKey => x = y

\* a call that has not returned: no data, nothing fetched, nothing rejected
NoCall == [hasData |-> FALSE, data |-> NoData, fetched |-> FALSE,
           rejected |-> FALSE]

InitRace ==
    /\ webhooks = [k \in {} |-> Row("w1", <<0>>, U1, {})]
    /\ \E c \in InitialCaches : leaderboardCache = c.cache /\ now = c.now
    /\ foreignKeys = FALSE
    /\ cliArgs \in [dryRun : {FALSE}, skipCache : BOOLEAN, forceAoc : {FALSE}]
    /\ eastern = [hour |-> 0, month |-> 12, day |-> 1, year |-> 2025]
    /\ Fresh
    /\ req \in [Callers -> [leaderboardUrl : RaceUrls,
                             upstream : UpstreamBehaviours, at : {"query"}]]
    /\ res = [c \in Callers |-> NoCall]

\* getLeaderboard up to the answer of leaderboardCache.findFirst: a fresh
\* row is returned, otherwise the call goes on to fetch
Race_findFirst(c) ==
    /\ req[c].at = "query"
    /\ LET viewKey == validateLeaderboardUrl(req[c].leaderboardUrl).viewKey
           found == findCached(leaderboardCache, viewKey)
           cached == leaderboardCache[CHOOSE x \in found : TRUE]
       IN IF found # {} /\ isCacheHit(cached, now)
          THEN /\ res' = [res EXCEPT ![c].hasData = TRUE,
                                     ![c].data = JSON_parse(cached.data)]
               /\ req' = [req EXCEPT ![c].at = "returned"]
          ELSE /\ res' = res
               /\ req' = [req EXCEPT ![c].at = "fetch"]
    /\ UNCHANGED varsRun

\* getLeaderboard, await fetchLeaderboard(leaderboardUrl): without data the
\* call returns the error
Race_fetchLeaderboard(c) ==
    /\ req[c].at = "fetch"
    /\ LET result == fetchLeaderboard(req[c].leaderboardUrl, req[c].upstream)
       IN /\ res' = [res EXCEPT ![c].hasData = result.hasData,
                                ![c].data = result.data,
                                ![c].fetched = TRUE]
          /\ req' = [req EXCEPT ![c].at = IF result.hasData THEN "upsert"
                                          ELSE "returned"]
          /\ now' = now + FetchDuration + RetryTime(result.requests)
    /\ UNCHANGED <<persisted, environment, pc, locals, history>>

\* getLeaderboard, await db.insert(...).onConflictDoUpdate(...): one
\* statement; it is rejected, and the call with it, when it would leave two
\* rows with one view key
Race_upsert(c) ==
    /\ req[c].at = "upsert"
    /\ LET viewKey == validateLeaderboardUrl(req[c].leaderboardUrl).viewKey
           table == upsertCache(leaderboardCache, viewKey, res[c].data, now)
       IN IF viewKey_unique(table)
          THEN /\ leaderboardCache' = table
               /\ res' = res
          ELSE /\ leaderboardCache' = leaderboardCache
               /\ res' = [res EXCEPT ![c].rejected = TRUE]
    /\ req' = [req EXCEPT ![c].at = "returned"]
    /\ UNCHANGED <<webhooks, logs, environment, now, pc, locals, history>>

NextRace ==
    \E c \in Callers :
        \/ Race_findFirst(c)
        \/ Race_fetchLeaderboard(c)
        \/ Race_upsert(c)

SpecRace == InitRace /\ [][NextRace]_vars

(***************************************************************************)
(* The leaderboard formatters on their own: leaderboards of up to          *)
(* MaxMembers members, one call.                                           *)
(***************************************************************************)
MaxMembers == 24

\* stars of member i: everybody has some, every third has none, nobody has
StarsOf(pattern, x) ==
    CASE pattern = "all" -> (x % 3) + 1
      [] pattern = "some" -> x % 3
      [] OTHER -> 0

\* local_score of member i: growing with the id, falling with it, with ties
ScoreOf(pattern, x) ==
    CASE pattern = "ascending" -> 10 * x
      [] pattern = "descending" -> 10 * (MaxMembers + 2 - x)
      [] OTHER -> 10 * ((x * 7) % 5)

GeneratedMembers(n, stars, scores) ==
    [x \in 1..n |->
        Member(x, IF x % 2 = 0 THEN "" ELSE "member", StarsOf(stars, x),
               IF StarsOf(stars, x) = 0 THEN 0 ELSE ScoreOf(scores, x))]

FormatLeaderboards ==
    {AocLeaderboard(2025, 1, GeneratedMembers(n, stars, scores)) :
        n \in 0..MaxMembers, stars \in {"all", "some", "none"},
        scores \in {"ascending", "descending", "ties"}}

NoPayload == [kind |-> "none", cyclic |-> FALSE]

InitFormat ==
    /\ IdleRun
    /\ req \in [formatter : Clients, leaderboard : FormatLeaderboards,
                 joinCode : {"", "1234-abcd"}, called : {FALSE}]
    /\ res = NoPayload

\* one call of formatLeaderboardEmbed or formatLeaderboardSlackMessage
FormatLeaderboard ==
    /\ ~req.called
    /\ req' = [req EXCEPT !.called = TRUE]
    /\ res' = IF req.formatter = "slack"
              THEN formatLeaderboardSlackMessage(req.leaderboard, FALSE,
                                                 req.joinCode)
              ELSE formatLeaderboardEmbed(req.leaderboard, "", req.joinCode)
    /\ UNCHANGED varsRun

SpecFormat == InitFormat /\ [][FormatLeaderboard]_vars

(***************************************************************************)
(* The API routes that write the table webhooks, next to a run of the      *)
(* dispatcher: POST /api/webhooks, PUT and DELETE /api/webhooks/[id].      *)
(* Route handlers run concurrently; POST awaits between its lookup and its *)
(* insert, so another request can be served between the two.               *)
(***************************************************************************)
\* text("webhook_url").notNull().unique(): the database rejects an insert or
\* update that would store url in a row other than id

webhookUrl_unique_none(table, id, url) == TRUE

webhookUrl_unique(table, id, url) ==
    \A x \in DOMAIN table \ {id} : table[x].webhookUrl # url

detectWebhookType(url) ==
    IF url \in DiscordUrls THEN "discord"
    ELSE IF url \in SlackUrls THEN "slack"
    ELSE NULL

validateWebhookUrl(url) == detectWebhookType(url) # NULL

validateDiscordWebhookUrl(url) == url \in DiscordUrls

\* the request bodies of POST: any endpoint, with the type that goes with it,
\* an hour other than the one of the run, and the puzzle notification
\* disabled (-1)
CreateBodies ==
    {[webhookUrl |-> url,
      type |-> IF url \in SlackUrls THEN "slack" ELSE "discord",
      hours |-> <<MaxHour>>, leaderboardUrl |-> U1,
      puzzleNotificationHour |-> -1] :
        url \in EndpointUrls}

\* z.array(z.number().min(0).max(23)).min(1)
LastHour == 23

hoursSchema(hours) ==
    /\ Len(hours) >= 1
    /\ \A k \in 1..Len(hours) : hours[k] >= 0 /\ hours[k] <= LastHour

\* z.number().min(-1).max(23)
puzzleNotificationHourSchema(hour) == hour >= -1 /\ hour <= LastHour

\* webhookCreateSchema.safeParse: -1 becomes null
webhookCreateSchema(body) ==
    [success |-> /\ validateWebhookUrl(body.webhookUrl)
                 /\ hoursSchema(body.hours)
                 /\ validateLeaderboardUrl(body.leaderboardUrl).valid
                 /\ puzzleNotificationHourSchema(body.puzzleNotificationHour),
     data |-> [body EXCEPT !.puzzleNotificationHour =
                            IF @ = -1 THEN {} ELSE {@}]]

\* the request bodies of PUT.  An optional number or array of a body is the
\* set of the values given for it: {} when the body does not have the field.
\* A body with a new destination URL, or with nothing:
UpdateBodies ==
    [discordWebhookUrl : EndpointUrls \cup {NULL}, hours : {{}},
     puzzleNotificationHour : {{}}]

\* a body that disables the puzzle notification (-1)
DisableBodies ==
    [discordWebhookUrl : {NULL}, hours : {{}}, puzzleNotificationHour : {{-1}}]

\* webhookUpdateSchema.safeParse: every field is optional.  In the data an
\* optional field is <<>> when undefined and <<v>> when it has the value v,
\* a puzzle notification hour v being {} for null and {h} for the hour h.
webhookUpdateSchema(body) ==
    [success |-> /\ \/ body.discordWebhookUrl = NULL
                    \/ validateDiscordWebhookUrl(body.discordWebhookUrl)
                 /\ \A hours \in body.hours : hoursSchema(hours)
                 /\ \A hour \in body.puzzleNotificationHour :
                        puzzleNotificationHourSchema(hour),
     data |-> [discordWebhookUrl |-> body.discordWebhookUrl,
               hours |-> IF body.hours = {} THEN <<>>
                         ELSE <<CHOOSE hours \in body.hours : TRUE>>,
               puzzleNotificationHour |->
                   IF body.puzzleNotificationHour = {} THEN <<>>
                   ELSE IF body.puzzleNotificationHour = {-1} THEN <<{}>>
                   ELSE <<body.puzzleNotificationHour>>]]

\* nanoid(): an id no row ever had
nanoid(used) ==
    LET free == SelectSeq(IdOrder, LAMBDA id : id \in WebhookIds \ used)
    IN free[1]

\* newWebhook of POST
newWebhook(id, data) ==
    [id |-> id,
     webhookUrl |-> data.webhookUrl,
     type |-> data.type,
     roleId |-> "",
     pingChannel |-> FALSE,
     hours |-> JSON_text(data.hours),
     leaderboardUrl |-> data.leaderboardUrl,
     joinCode |-> "",
     puzzleNotificationHour |-> IF data.puzzleNotificationHour = {} THEN {0}
                                ELSE data.puzzleNotificationHour]

\* db.query.webhooks.findFirst({ where: eq(webhooks.webhookUrl, url) })
findFirstByUrl(table, url) == {x \in DOMAIN table : table[x].webhookUrl = url}

\* the response of POST: for which URL, whether that URL was stored when
\* the handler looked, the status, and whether the table is as it was
Response(url, stored, status, unchanged) ==
    [webhookUrl |-> url, stored |-> stored, status |-> status,
     unchanged |-> unchanged]

\* the API next to one run: a table with one webhook that gets the puzzle
\* notification of the run, and with or without its leaderboard update
InitApi ==
    /\ webhooks \in {t \in Tables : /\ DOMAIN t = {"w1"}
                                    /\ t["w1"].puzzleNotificationHour = {0}}
    /\ leaderboardCache = EmptyCache
    /\ now = EarlierFetch + DefaultTtl
    /\ foreignKeys \in BOOLEAN
    /\ cliArgs \in [dryRun : BOOLEAN, skipCache : {FALSE}, forceAoc : {FALSE}]
    /\ eastern = [hour |-> 0, month |-> 12, day |-> 12, year |-> 2025]
    /\ Fresh
    /\ req = [pending |-> {}, ids |-> DOMAIN webhooks]
    /\ res = Response(NULL, FALSE, 0, TRUE)

\* POST up to its insert: 400 for a body the schema rejects, 409 for a URL
\* that is stored; otherwise newWebhook is built and the handler awaits the
\* insert.  No more rows are built than there are ids.
POST_lookup ==
    /\ \E body \in CreateBodies :
        LET result == webhookCreateSchema(body)
            existing == findFirstByUrl(webhooks, body.webhookUrl)
            id == nanoid(req.ids)
        IN IF ~result.success
           THEN /\ res' = Response(body.webhookUrl, FALSE, 400, TRUE)
                /\ req' = req
           ELSE IF existing # {}
           THEN /\ res' = Response(body.webhookUrl, TRUE, 409, TRUE)
                /\ req' = req
           ELSE /\ req.ids # WebhookIds
                /\ req' = [pending |-> req.pending
                                        \cup {newWebhook(id, result.data)},
                           ids |-> req.ids \cup {id}]
                /\ res' = res
    /\ UNCHANGED varsRun

\* POST, its insert: 201, or 500 when the insert is rejected
POST_insert ==
    /\ \E row \in req.pending :
        /\ req' = [req EXCEPT !.pending = @ \ {row}]
        /\ IF webhookUrl_unique(webhooks, row.id, row.webhookUrl)
           THEN /\ webhooks' = [x \in DOMAIN webhooks \cup {row.id} |->
                                   IF x = row.id THEN row ELSE webhooks[x]]
                /\ res' = Response(row.webhookUrl, FALSE, 201, FALSE)
           ELSE /\ webhooks' = webhooks
                /\ res' = Response(row.webhookUrl, FALSE, 500, TRUE)
    /\ UNCHANGED <<leaderboardCache, logs, environment, now, pc, locals,
                   history>>

\* the updates object of PUT applied to a row: the fields that are not
\* undefined in the data
updates(row, data) ==
    [row EXCEPT
        !.webhookUrl = IF data.discordWebhookUrl = NULL THEN @
                       ELSE data.discordWebhookUrl,
        !.hours = IF data.hours = <<>> THEN @ ELSE JSON_text(data.hours[1]),
        !.puzzleNotificationHour =
            IF data.puzzleNotificationHour = <<>> THEN @
            ELSE data.puzzleNotificationHour[1]]

\* PUT /api/webhooks/[id] with one of the bodies: 400, 404, the update, or
\* 500 when the update is rejected
PUT_body(bodies) ==
    /\ \E id \in req.ids, body \in bodies :
        LET result == webhookUpdateSchema(body)
            url == result.data.discordWebhookUrl
        IN IF \/ ~result.success
              \/ id \notin DOMAIN webhooks
              \/ /\ url # NULL
                 /\ ~webhookUrl_unique(webhooks, id, url)
           THEN webhooks' = webhooks
           ELSE webhooks' = [webhooks EXCEPT
                                 ![id] = updates(@, result.data)]
    /\ UNCHANGED <<leaderboardCache, logs, environment, now, pc, locals,
                   history, req, res>>

PUT == PUT_body(UpdateBodies)

\* DELETE /api/webhooks/[id]: 404, or the row and its logs are deleted
DELETE ==
    /\ \E id \in req.ids :
        IF id \notin DOMAIN webhooks
        THEN UNCHANGED <<webhooks, logs>>
        ELSE /\ webhooks' = deleteWebhook(webhooks, id)
             /\ logs' = cascadeLogs(logs, id)
    /\ UNCHANGED <<leaderboardCache, environment, now, pc, locals, history,
                   req, res>>

NextApi ==
    \/ Next
    \/ POST_lookup
    \/ POST_insert
    \/ PUT
    \/ DELETE

SpecApi == InitApi /\ [][NextApi]_vars

\* the routes that store a puzzle notification hour, next to one run
PUT_disable == PUT_body(DisableBodies)

NextDisable ==
    \/ Next
    \/ POST_lookup
    \/ POST_insert
    \/ PUT_disable

SpecDisable == InitApi /\ [][NextDisable]_vars

(***************************************************************************)
(* The schemas of the routes applied to request bodies: one safeParse of   *)
(* webhookCreateSchema (POST) or webhookUpdateSchema (PUT).                *)
(***************************************************************************)
\* arrays a body can carry as hours: one hour, hours repeated or out of
\* order, none, and hours at and beyond the ends of the range
SchemaHourLists ==
    HourLists \cup RepeatedHourLists
        \cup {<<>>, <<-1>>, <<LastHour>>, <<LastHour + 1>>}

SchemaCreateBodies ==
    {[webhookUrl |-> url,
      type |-> IF url \in SlackUrls THEN "slack" ELSE "discord",
      hours |-> hours, leaderboardUrl |-> leaderboardUrl,
      puzzleNotificationHour |-> hour] :
        url \in EndpointUrls, hours \in SchemaHourLists,
        leaderboardUrl \in {U1, LbUrl("adventofcode.com", 2025, 1, "")},
        hour \in {-1, 0}}

SchemaUpdateBodies ==
    [discordWebhookUrl : {NULL},
     hours : {{}} \cup {{hours} : hours \in SchemaHourLists},
     puzzleNotificationHour : {{}}]

\* result.success and, in an optional <<>> or <<hours>>, result.data.hours
Parsed(success, hours) == [success |-> success, hours |-> hours]

InitSchema ==
    /\ IdleRun
    /\ req \in [route : {"POST"}, body : SchemaCreateBodies, called : {FALSE}]
                \cup [route : {"PUT"}, body : SchemaUpdateBodies,
                      called : {FALSE}]
    /\ res = Parsed(FALSE, <<>>)

\* const result = schema.safeParse(body) of POST and of PUT
safeParse ==
    /\ ~req.called
    /\ req' = [req EXCEPT !.called = TRUE]
    /\ res' = IF req.route = "POST"
              THEN LET result == webhookCreateSchema(req.body)
                   IN Parsed(result.success, <<result.data.hours>>)
              ELSE LET result == webhookUpdateSchema(req.body)
                   IN Parsed(result.success, result.data.hours)
    /\ UNCHANGED varsRun

SpecSchema == InitSchema /\ [][safeParse]_vars

(***************************************************************************)
(* The season predicates of lib/aoc-config.ts on their own, for the        *)
(* configurations the environment variables can give.                      *)
(***************************************************************************)
\* process.env[key]: {} when the variable is not set, {n} when it is the
\* decimal text of n
getEnvNumber(value, defaultValue) ==
    IF value = {} THEN defaultValue ELSE CHOOSE n \in value : TRUE

\* the environments: each variable unset or set
Environments ==
    [NEXT_PUBLIC_AOC_START_DAY : {{}, {1}, {2}},
     NEXT_PUBLIC_AOC_END_DAY : {{}, {12}, {25}},
     NEXT_PUBLIC_AOC_MONTH : {{}, {11}, {12}}]

\* AOC_CONFIG as the module computes it when it is loaded
AOC_CONFIG_of(env) ==
    [startDay |-> getEnvNumber(env.NEXT_PUBLIC_AOC_START_DAY, 1),
     endDay |-> getEnvNumber(env.NEXT_PUBLIC_AOC_END_DAY, 12),
     month |-> getEnvNumber(env.NEXT_PUBLIC_AOC_MONTH, 12)]

\* isAocPuzzleSeason with the configuration it reads
isAocPuzzleSeason_of(config, month, day) ==
    /\ month = config.month
    /\ day >= config.startDay
    /\ day <= config.endDay

isAocLeaderboardSeason_nextday(config, month, day) ==
    /\ month = config.month
    /\ day = config.endDay + 1

\* isAocLeaderboardSeason with the configuration it reads
isAocLeaderboardSeason_of(config, month, day) ==
    /\ month = config.month
    /\ day >= config.startDay
    /\ day <= config.endDay + 1

SeasonMonths == {1, 11, 12}
SeasonDays == 1..31

NoSeason == [puzzle |-> FALSE, leaderboard |-> FALSE]

InitSeason ==
    /\ IdleRun
    /\ req \in [env : Environments, month : SeasonMonths, day : SeasonDays,
                 called : {FALSE}]
    /\ res = NoSeason

\* both predicates called for one date
CallSeason ==
    /\ ~req.called
    /\ req' = [req EXCEPT !.called = TRUE]
    /\ res' = [puzzle |-> isAocPuzzleSeason_of(AOC_CONFIG_of(req.env),
                                               req.month, req.day),
               leaderboard |->
                   isAocLeaderboardSeason_of(AOC_CONFIG_of(req.env),
                                             req.month, req.day)]
    /\ UNCHANGED varsRun

SpecSeason == InitSeason /\ [][CallSeason]_vars

(***************************************************************************)
(* The test mode of scripts/cron.ts (--test-url, --test-leaderboard): one  *)
(* message sent to a URL given on the command line, without the database.  *)
(***************************************************************************)
\* the test message runTestMode builds when no leaderboard URL is given
TestMessage == [kind |-> "test", cyclic |-> FALSE]

\* runTestMode followed by the handlers of main(): what was fetched and
\* sent, and the code the process exits with.  process.exit(1) after a fetch
\* error ends the process at once; otherwise main() returns and the process
\* exits with 0, or main() rejects and it exits with 1.
runTestMode(webhookUrl, withLeaderboard, leaderboardUrl, upstream, net) ==
    LET result == fetchLeaderboard(leaderboardUrl, upstream)
        payload == IF withLeaderboard
                   THEN formatLeaderboardEmbed(result.data, "", "")
                   ELSE TestMessage
        sendResult == sendDiscordWebhook(webhookUrl, payload, net)
    IN IF withLeaderboard /\ result.error # <<>>
       THEN [fetched |-> TRUE, fetchError |-> TRUE, sent |-> FALSE,
             outcome |-> "none", rejected |-> FALSE, exitCode |-> 1]
       ELSE [fetched |-> withLeaderboard, fetchError |-> FALSE, sent |-> TRUE,
             outcome |-> Outcome(sendResult), rejected |-> sendResult.raised,
             exitCode |-> IF sendResult.raised THEN 1 ELSE 0]

NoTestRun == [fetched |-> FALSE, fetchError |-> FALSE, sent |-> FALSE,
              outcome |-> "none", rejected |-> FALSE, exitCode |-> 0]

InitTest ==
    /\ IdleRun
    /\ req \in [testUrl : EndpointUrls, withLeaderboard : BOOLEAN,
                 testLeaderboard : LeaderboardUrls,
                 upstream : UpstreamBehaviours, net : NetBehaviours,
                 called : {FALSE}]
    /\ res = NoTestRun

\* one start of the script with --test-url
RunTestMode ==
    /\ ~req.called
    /\ req' = [req EXCEPT !.called = TRUE]
    /\ res' = runTestMode(req.testUrl, req.withLeaderboard,
                          req.testLeaderboard, req.upstream, req.net)
    /\ UNCHANGED varsRun

SpecTest == InitTest /\ [][RunTestMode]_vars

(***************************************************************************)
(* Properties of the delivery clients (checked under SpecDeliver).         *)
(***************************************************************************)
\* the request reached the destination and got an HTTP response
Answered == /\ req.called
            /\ ~req.payload.cyclic
            /\ req.webhookUrl \in ParsableUrls
            /\ req.net.kind = "response"

Is2xx == req.net.status >= 200 /\ req.net.status <= 299

IsSuccess == res.success /\ ~res.webhookDeleted /\ res.error = <<>>
IsPermanent == ~res.success /\ res.webhookDeleted
IsTransient == ~res.success /\ ~res.webhookDeleted /\ Len(res.error) > 0

\* C2 as stated: 2xx gives Success, 404 gives PermanentFailure, and every
\* other non-2xx response or transport error gives TransientFailure with a
\* message and without the deleted flag, for both clients.
C2_AsStated ==
    req.called =>
        IF Answered /\ Is2xx THEN IsSuccess
        ELSE IF Answered /\ req.net.status = 404 THEN IsPermanent
        ELSE IsTransient

\* C2 amended: 2xx gives Success; 404, and for the Slack client also 410,
\* gives PermanentFailure; every other non-2xx response or transport error
\* gives TransientFailure with a message and without the deleted flag.
C2_Classification ==
    req.called =>
        IF Answered /\ Is2xx THEN IsSuccess
        ELSE IF Answered /\ (req.net.status = 404
                             \/ (req.client = "slack" /\ req.net.status = 410))
             THEN IsPermanent
        ELSE IsTransient

C2_Witness ==
    /\ Answered /\ req.client = "discord" /\ req.net.status = 500
    /\ IsTransient

\* C3: a 410 response is a PermanentFailure for the Slack client only; the
\* Discord client classifies it as a TransientFailure (deleted flag unset).
C3_Gone410 ==
    (Answered /\ req.net.status = 410) =>
        /\ req.client = "slack" => IsPermanent
        /\ req.client = "discord" => IsTransient

C3_Witness ==
    /\ Answered /\ req.net.status = 410 /\ req.client = "discord"
    /\ ~res.webhookDeleted

\* C4: the delivery client never raises to its caller; whatever the endpoint
\* URL, the payload and the network do, it returns a classified outcome.
C4_NeverRaises ==
    req.called => /\ ~res.raised
                  /\ Outcome(res) \in {"Success", "PermanentFailure",
                                       "TransientFailure"}

C4_Witness ==
    /\ req.called
    /\ req.net.kind = "throw" \/ req.payload.cyclic
           \/ req.webhookUrl \notin ParsableUrls
    /\ Outcome(res) = "TransientFailure"

(***************************************************************************)
(* Properties of a run (checked under Spec and SpecThree).                 *)
(***************************************************************************)
\* the run has ended: main() returned, or its promise rejected
Terminal == pc \in {"done", "failed"}

\* the webhooks of the table the run started from that are scheduled for
\* the current hour, and their leaderboard URLs
ActiveIds ==
    {id \in DOMAIN webhooks0 :
        \E k \in 1..Len(webhooks0[id].hours.json) :
            webhooks0[id].hours.json[k] = eastern.hour}

ActiveUrls == {webhooks0[id].leaderboardUrl : id \in ActiveIds}

GroupIds(url) == {id \in ActiveIds : webhooks0[id].leaderboardUrl = url}

CallsFor(url) == {k \in 1..Len(lbCalls) : lbCalls[k].leaderboardUrl = url}

Attempts(id, pass) ==
    {k \in 1..Len(deliveries) :
        deliveries[k].id = id /\ deliveries[k].pass = pass}

Classified(id, outcome) ==
    \E k \in 1..Len(deliveries) :
        deliveries[k].id = id /\ deliveries[k].outcome = outcome

\* C1: in a run that is not a dry run, a webhook of the starting table is
\* gone from the table exactly when a delivery attempted to it in this run
\* was classified PermanentFailure; webhooks whose deliveries all succeeded
\* or failed transiently are still in the table.
C1_DeletedIffPermanent ==
    ~cliArgs.dryRun =>
        \A id \in DOMAIN webhooks0 :
            (id \notin DOMAIN webhooks) <=> Classified(id, "PermanentFailure")

C1_Witness ==
    /\ pc = "done" /\ ~cliArgs.dryRun
    /\ \E id \in DOMAIN webhooks0 :
        id \notin DOMAIN webhooks /\ Classified(id, "PermanentFailure")
    /\ \E id \in DOMAIN webhooks :
        Classified(id, "TransientFailure") /\ Attempts(id, "leaderboard") # {}

\* C5: a run never inserts a webhook and never changes a field of one: every
\* row in the table is a row of the starting table, unchanged, so the table
\* is the starting table minus the deleted rows.
C5_OnlyDeletes ==
    /\ DOMAIN webhooks \subseteq DOMAIN webhooks0
    /\ \A id \in DOMAIN webhooks : webhooks[id] = webhooks0[id]

C5_Witness ==
    /\ pc = "done"
    /\ DOMAIN webhooks # {}
    /\ DOMAIN webhooks # DOMAIN webhooks0
    /\ \E id \in DOMAIN webhooks : Classified(id, "Success")

\* C6 as stated, for a run that is not a dry run: when the run has ended,
\* getLeaderboard was called exactly once for every leaderboard URL of the
\* webhooks active this hour, and where that call returned data every
\* webhook of the group got exactly one leaderboard delivery attempt.
C6_AsStated ==
    (Terminal /\ ~cliArgs.dryRun) =>
        \A url \in ActiveUrls :
            /\ Cardinality(CallsFor(url)) = 1
            /\ \A k \in CallsFor(url) :
                lbCalls[k].hasData =>
                    \A id \in GroupIds(url) :
                        Cardinality(Attempts(id, "leaderboard")) = 1

\* two webhooks share a URL, the first is answered 404 and deleted, the
\* insert of its webhook_deleted log is rejected and the second gets nothing
C6_Witness ==
    /\ pc = "failed"
    /\ \E url \in ActiveUrls :
        /\ Cardinality(GroupIds(url)) = 2
        /\ Cardinality(CallsFor(url)) = 1
        /\ \E id \in GroupIds(url) : Attempts(id, "leaderboard") = {}
        /\ \E id \in GroupIds(url) : Classified(id, "PermanentFailure")

FetchErrorLogged(id) ==
    \E k \in 1..Len(logs) :
        /\ logs[k].webhookId = id
        /\ logs[k].type = "error"
        /\ Head(logs[k].message) = "Failed to fetch leaderboard: "

\* a group of the run was processed: its leaderboard was requested, and it
\* was delivered to each of its webhooks unless there was no data to deliver
Processed(url) ==
    /\ CallsFor(url) # {}
    /\ \A k \in CallsFor(url) :
        (lbCalls[k].hasData /\ ~cliArgs.dryRun) =>
            \A id \in GroupIds(url) : Attempts(id, "leaderboard") # {}

\* C7 as stated: when the run has ended and getLeaderboard failed for a
\* group, an error is logged for every webhook of that group (outside dry
\* runs, which log nothing), no leaderboard delivery was attempted to them,
\* and every other group of the run was processed.
C7_AsStated ==
    Terminal =>
        \A c \in 1..Len(lbCalls) :
            ~lbCalls[c].hasData =>
                /\ \A id \in GroupIds(lbCalls[c].leaderboardUrl) :
                    /\ ~cliArgs.dryRun => FetchErrorLogged(id)
                    /\ Attempts(id, "leaderboard") = {}
                /\ \A url \in ActiveUrls : Processed(url)

\* the first group's fetch fails, a webhook of the second is answered 404,
\* and the third group is never reached
C7_Witness ==
    /\ pc = "failed"
    /\ Len(lbCalls) = 2
    /\ ~lbCalls[1].hasData
    /\ \A id \in GroupIds(lbCalls[1].leaderboardUrl) : FetchErrorLogged(id)
    /\ Cardinality(ActiveUrls) = 3

\* C8: in a dry run no delivery request is sent and no webhook is deleted:
\* the table is the starting table at every point of the run, whatever the
\* destinations would have answered.
C8_DryRunSendsNothing ==
    cliArgs.dryRun => /\ deliveries = <<>>
                      /\ webhooks = webhooks0

C8_Witness ==
    /\ cliArgs.dryRun
    /\ pc = "done"
    /\ summary.puzzle.success > 0
    /\ summary.updates.success > 0
    /\ DOMAIN webhooks0 # {}

\* the TTL of the run: 0 with --skip-cache, five minutes otherwise
RunTtl == IF cliArgs.skipCache THEN 0 ELSE 5 * 60 * 1000

\* C9: getLeaderboard returns the cached payload without invoking the
\* fetcher exactly when the cache has a row for the URL's view key with
\* now - fetchedAt < TTL; otherwise it invokes the fetcher, and after a
\* successful fetch the row for that key holds the new payload and a new
\* fetchedAt (the time of the write, stored in whole seconds) when
\* getLeaderboard returns.
C9_CacheOrFetch ==
    \A k \in 1..Len(lbCalls) :
        LET c == lbCalls[k]
            key == c.leaderboardUrl.viewKey
            fresh == /\ key \in DOMAIN c.before
                     /\ c.at - c.before[key].fetchedAt < RunTtl
        IN IF fresh
           THEN /\ ~c.fetched
                /\ c.hasData
                /\ c.data = c.before[key].data.json
                /\ c.after = c.before
           ELSE /\ c.fetched
                /\ (c.upstream.kind = "response" /\ c.upstream.status = 200)
                       => c.hasData
                /\ c.hasData =>
                    /\ key \in DOMAIN c.after
                    /\ c.after[key].data.json = c.data
                    /\ c.data.members = CurrentMembers(c.leaderboardUrl.board)
                    /\ c.after[key].fetchedAt <= c.returned
                    /\ c.after[key].fetchedAt > c.at - 1000
                    /\ key \in DOMAIN c.before =>
                        c.after[key].fetchedAt >= c.before[key].fetchedAt
                /\ ~c.hasData => c.after = c.before

\* a stale row is refreshed by one call and served by the next
C9_Witness ==
    \E a, b \in 1..Len(lbCalls) :
        /\ a < b
        /\ lbCalls[a].fetched /\ lbCalls[a].hasData
        /\ lbCalls[a].leaderboardUrl.viewKey \in DOMAIN lbCalls[a].before
        /\ ~lbCalls[b].fetched
        /\ lbCalls[b].leaderboardUrl.viewKey = lbCalls[a].leaderboardUrl.viewKey

\* C10: with --skip-cache the TTL is 0 and every getLeaderboard call for a
\* valid URL invokes the fetcher, whatever the cache holds; two calls in a
\* row for the same key fetch twice.
C10_SkipCacheAlwaysFetches ==
    cliArgs.skipCache =>
        \A k \in 1..Len(lbCalls) :
            lbCalls[k].fetched /\ lbCalls[k].requests >= 1

C10_Witness ==
    /\ cliArgs.skipCache
    /\ Len(lbCalls) = 2
    /\ lbCalls[1].leaderboardUrl.viewKey = lbCalls[2].leaderboardUrl.viewKey
    /\ lbCalls[1].fetched /\ lbCalls[1].hasData
    /\ lbCalls[2].fetched
    /\ lbCalls[2].before = lbCalls[1].after
    /\ lbCalls[1].leaderboardUrl.viewKey \in DOMAIN lbCalls[2].before

(***************************************************************************)
(* Properties of getLeaderboard and fetchLeaderboard (checked under        *)
(* SpecFetch).                                                             *)
(***************************************************************************)
\* the URL is adventofcode.com/YEAR/leaderboard/private/view/ID with a
\* view_key
MatchesPattern(url) ==
    /\ url.parsable
    /\ url.hostname = "adventofcode.com"
    /\ url.year # 0
    /\ url.viewKey # ""

\* C11: for a URL that does not match the pattern or has no view_key,
\* getLeaderboard and fetchLeaderboard return an error and send no request
\* to adventofcode.com; getLeaderboard neither reads nor writes the cache.
C11_InvalidUrlNoRequest ==
    (req.called /\ ~MatchesPattern(req.leaderboardUrl)) =>
        /\ ~res.hasData
        /\ Len(res.error) > 0 /\ res.error # <<"pending">>
        /\ res.requests = 0
        /\ res.queries = 0
        /\ \E c \in InitialCaches : leaderboardCache = c.cache /\ now = c.now

C11_Witness ==
    /\ req.called
    /\ req.fn = "fetchLeaderboard"
    /\ req.leaderboardUrl.viewKey = ""
    /\ req.leaderboardUrl.hostname = "adventofcode.com"
    /\ req.leaderboardUrl.year # 0
    /\ req.upstream.kind = "response" /\ req.upstream.status = 200
    /\ res.error = <<"URL must include a view_key parameter">>

(***************************************************************************)
(* Properties of the puzzle pass (checked under Spec and SpecThree).       *)
(***************************************************************************)
PuzzleDeliveries == {k \in 1..Len(deliveries) : deliveries[k].pass = "puzzle"}

\* the webhooks of the starting table whose puzzle notification hour is the
\* current hour
PuzzleIds ==
    {id \in DOMAIN webhooks0 :
        webhooks0[id].puzzleNotificationHour = {eastern.hour}}

\* C12 as stated: puzzle notifications are delivered only with --force-aoc
\* or on a day of the configured puzzle season (AOC_CONFIG month, start day
\* to end day), and then to exactly the webhooks whose puzzle notification
\* hour is the current hour.
C12_AsStated ==
    /\ PuzzleDeliveries # {} =>
        cliArgs.forceAoc \/ isAocPuzzleSeason(eastern.month, eastern.day)
    /\ \A k \in PuzzleDeliveries : deliveries[k].id \in PuzzleIds
    /\ (pc = "done" /\ ~cliArgs.dryRun
        /\ (cliArgs.forceAoc
            \/ isAocPuzzleSeason(eastern.month, eastern.day))) =>
        \A id \in PuzzleIds : Cardinality(Attempts(id, "puzzle")) = 1

\* December 13 without --force-aoc: a puzzle notification is delivered
C12_Witness ==
    /\ ~cliArgs.forceAoc
    /\ eastern.month = 12 /\ eastern.day = 13
    /\ ~isAocPuzzleSeason(eastern.month, eastern.day)
    /\ \E k \in PuzzleDeliveries : deliveries[k].outcome = "Success"

\* the run is not a dry run and its day is in the configured puzzle season
InSeasonRun ==
    ~cliArgs.dryRun /\ isAocPuzzleSeason(eastern.month, eastern.day)

\* C13 as stated: when a run in the puzzle season has ended, a webhook whose
\* puzzle notification hour is the current hour and whose hours do not
\* contain it got exactly one puzzle delivery and no leaderboard delivery;
\* a run with no webhook active for the hour calls getLeaderboard never.
C13_AsStated ==
    /\ (Terminal /\ InSeasonRun) =>
        \A id \in PuzzleIds \ ActiveIds :
            /\ Cardinality(Attempts(id, "puzzle")) = 1
            /\ Attempts(id, "leaderboard") = {}
    /\ ActiveIds = {} => lbCalls = <<>>

\* the first puzzle webhook is answered 404, the run ends with the rejected
\* log insert, and the second puzzle webhook gets nothing
C13_Witness ==
    /\ pc = "failed" /\ InSeasonRun
    /\ lbCalls = <<>>
    /\ \E id \in PuzzleIds : Classified(id, "PermanentFailure")
    /\ \E id \in PuzzleIds \ ActiveIds : Attempts(id, "puzzle") = {}

\* getLeaderboard was called for the URL and returned an error
FetchFailed(url) == \E k \in CallsFor(url) : ~lbCalls[k].hasData

\* C14 as stated: when a run in the puzzle season has ended, a webhook whose
\* puzzle notification hour and hours both match the current hour got one
\* puzzle delivery and, unless the fetch of its leaderboard failed, after it
\* one leaderboard delivery.
C14_AsStated ==
    (Terminal /\ InSeasonRun) =>
        \A id \in PuzzleIds \cap ActiveIds :
            /\ Cardinality(Attempts(id, "puzzle")) = 1
            /\ ~FetchFailed(webhooks0[id].leaderboardUrl) =>
                /\ Cardinality(Attempts(id, "leaderboard")) = 1
                /\ \A a \in Attempts(id, "puzzle") :
                    \A b \in Attempts(id, "leaderboard") : a < b

\* the puzzle notification of a webhook that is also active is answered
\* 404: the run ends before its leaderboard is fetched
C14_Witness ==
    /\ pc = "failed" /\ InSeasonRun
    /\ lbCalls = <<>>
    /\ \E id \in PuzzleIds \cap ActiveIds :
        /\ Classified(id, "PermanentFailure")
        /\ Attempts(id, "leaderboard") = {}

(***************************************************************************)
(* Properties of the leaderboard formatters (checked under SpecFormat).    *)
(***************************************************************************)
\* the list of the rendered message: the embed's description, the section
\* block's text
RenderedList ==
    IF req.formatter = "slack" THEN res.section ELSE res.description

\* the members with stars > 0
Starred ==
    {x \in 1..Len(req.leaderboard.members) :
        req.leaderboard.members[x].stars > 0}

SameEntry(line, member) ==
    line.pts = member.local_score /\ line.stars = member.stars

LinesLike(line) ==
    {k \in 1..Len(RenderedList.lines) :
        RenderedList.lines[k].pts = line.pts
        /\ RenderedList.lines[k].stars = line.stars}

StarredLike(line) ==
    {x \in Starred : SameEntry(line, req.leaderboard.members[x])}

\* C15: the rendered list holds exactly the members with stars > 0, by
\* non-increasing score, cut to the first 15: no line has zero stars, a
\* higher score precedes a lower one, every line is a starred member, and a
\* starred member is left out only when 15 members with at least its score
\* are listed.
C15_TopFifteen ==
    req.called =>
        LET lines == RenderedList.lines
            members == req.leaderboard.members
        IN /\ Len(lines) = IF Cardinality(Starred) < 15
                           THEN Cardinality(Starred) ELSE 15
           /\ \A k \in 1..Len(lines) : lines[k].stars > 0
           /\ \A a, b \in 1..Len(lines) :
                a < b => lines[a].pts >= lines[b].pts
           /\ \A k \in 1..Len(lines) :
                Cardinality(LinesLike(lines[k]))
                    <= Cardinality(StarredLike(lines[k]))
           /\ \A x \in Starred :
                \/ \E k \in 1..Len(lines) : SameEntry(lines[k], members[x])
                \/ /\ Len(lines) = 15
                   /\ lines[15].pts >= members[x].local_score

\* more than 15 starred members stored by ascending score, some without
\* stars: the list is the 15 best
C15_Witness ==
    /\ req.called
    /\ Cardinality(Starred) > 15
    /\ Cardinality(Starred) < Len(req.leaderboard.members)
    /\ Len(RenderedList.lines) = 15
    /\ \E x \in Starred :
        req.leaderboard.members[x].local_score < RenderedList.lines[15].pts
    /\ RenderedList.lines[1].pts > RenderedList.lines[15].pts

\* C16: when no member has stars > 0 (also with no member at all) both
\* formatters give the placeholder as the list text; the list text is never
\* the empty string.
C16_Placeholder ==
    req.called =>
        /\ Starred = {} =>
            /\ RenderedList.lines = <<>>
            /\ RenderedList.text = IF req.formatter = "slack"
                                   THEN "_No participants with stars yet!_"
                                   ELSE "No participants with stars yet!"
        /\ RenderedList.lines = <<>> => RenderedList.text # ""

C16_Witness ==
    /\ req.called
    /\ req.formatter = "slack"
    /\ Len(req.leaderboard.members) > 0
    /\ Starred = {}
    /\ res.section.text = "_No participants with stars yet!_"
    /\ res.context.active = 0 /\ res.context.total > 0

(***************************************************************************)
(* Properties of what a run delivers (checked under Spec).                 *)
(***************************************************************************)
LeaderboardDeliveries ==
    {k \in 1..Len(deliveries) : deliveries[k].pass = "leaderboard"}

\* the join code a payload shows: the embed's Join Code field, the context
\* block's join code element ("" when there is none)
JoinCodeIn(payload) ==
    IF "context" \in DOMAIN payload THEN payload.context.joinCode
    ELSE payload.joinCode

\* C17 as stated: the leaderboard message delivered to a webhook that has a
\* join code contains that join code.
C17_AsStated ==
    \A k \in LeaderboardDeliveries :
        webhooks0[deliveries[k].id].joinCode # "" =>
            JoinCodeIn(deliveries[k].payload)
                = webhooks0[deliveries[k].id].joinCode

\* a leaderboard message without join code is delivered to a webhook that
\* has one
C17_Witness ==
    \E k \in LeaderboardDeliveries :
        /\ webhooks0[deliveries[k].id].joinCode = "1234-abcd"
        /\ JoinCodeIn(deliveries[k].payload) = ""
        /\ deliveries[k].outcome = "Success"

\* the envelope of a payload: blocks for Slack, embeds for Discord
PayloadShape(payload) ==
    IF "section" \in DOMAIN payload THEN "slack" ELSE "discord"

\* C18 as stated: every message of a run is rendered in the shape of its
\* webhook's type and delivered by the client of that type, so a 410 for a
\* webhook of type slack deletes it.
C18_AsStated ==
    \A k \in 1..Len(deliveries) :
        LET d == deliveries[k]
            type == webhooks0[d.id].type
        IN /\ d.client = type
           /\ PayloadShape(d.payload) = type
           /\ (type = "slack" /\ d.net.kind = "response"
               /\ d.net.status = 410) => d.id \notin DOMAIN webhooks

\* a webhook of type slack gets a Discord embed from the Discord client,
\* answers 410 and stays in the table
C18_Witness ==
    \E k \in LeaderboardDeliveries :
        LET d == deliveries[k]
        IN /\ webhooks0[d.id].type = "slack"
           /\ d.client = "discord"
           /\ PayloadShape(d.payload) = "discord"
           /\ d.net.kind = "response" /\ d.net.status = 410
           /\ d.outcome = "TransientFailure"
           /\ pc = "done" /\ d.id \in DOMAIN webhooks

(***************************************************************************)
(* Properties of the hour match (checked under SpecThree).                 *)
(***************************************************************************)
\* the set of the hours a row stores
HourSet(row) == {row.hours.json[k] : k \in 1..Len(row.hours.json)}

\* how often the current hour is in the hours a row stores
TimesStored(row) ==
    Cardinality({k \in 1..Len(row.hours.json) :
                    row.hours.json[k] = eastern.hour})

\* C19 as stated: a loaded webhook is among the active ones, once, exactly
\* when the current hour is in the set of its stored hours, whatever their
\* order and repetitions; and when the run has ended, a webhook that stores
\* the current hour more than once got exactly one leaderboard delivery
\* (unless the fetch of its leaderboard failed).
C19_AsStated ==
    /\ \A k \in 1..Len(allWebhooks) :
        Cardinality({a \in 1..Len(activeWebhooks) :
                        activeWebhooks[a].id = allWebhooks[k].id})
            = IF eastern.hour \in HourSet(allWebhooks[k]) THEN 1 ELSE 0
    /\ (Terminal /\ ~cliArgs.dryRun) =>
        \A id \in DOMAIN webhooks0 :
            (TimesStored(webhooks0[id]) > 1
             /\ ~FetchFailed(webhooks0[id].leaderboardUrl)) =>
                Cardinality(Attempts(id, "leaderboard")) = 1

\* a webhook storing [0, 0] is active at hour 0; an earlier webhook of the
\* run is answered 404 and the run ends before it gets its delivery
C19_Witness ==
    /\ pc = "failed"
    /\ \E id \in DOMAIN webhooks0 :
        /\ TimesStored(webhooks0[id]) = 2
        /\ \E a \in 1..Len(activeWebhooks) : activeWebhooks[a].id = id
        /\ Attempts(id, "leaderboard") = {}
        /\ ~FetchFailed(webhooks0[id].leaderboardUrl)

CountLine == IF req.formatter = "slack" THEN res.context ELSE res.stats

\* C30: the count line shows active / total, where active is the number of
\* all members with stars > 0, also of those beyond the 15 listed, and total
\* the number of all members; active is never more than total.
C30_ActiveOfTotal ==
    req.called =>
        /\ CountLine.active = Cardinality(Starred)
        /\ CountLine.total = Len(req.leaderboard.members)
        /\ CountLine.active <= CountLine.total

\* more members have stars than are listed, and some members have none
C30_Witness ==
    /\ req.called
    /\ Len(RenderedList.lines) = 15
    /\ CountLine.active > 15
    /\ CountLine.active < CountLine.total

(***************************************************************************)
(* Properties of the rows of leaderboard_cache (checked under Spec).       *)
(***************************************************************************)
\* the rows of a cache table that have the view key
RowsFor(cache, viewKey) == {x \in DOMAIN cache : cache[x].viewKey = viewKey}

\* C29: the cache never holds two rows with the same view key; a
\* getLeaderboard call that fetched data leaves exactly one row for the key,
\* holding the fetched data: the row that was there before, when there was
\* one, and no row of another key is added, removed or changed.
C29_OneRowPerKey ==
    /\ \A x \in DOMAIN leaderboardCache : \A y \in DOMAIN leaderboardCache :
        leaderboardCache[x].viewKey = leaderboardCache[y].viewKey => x = y
    /\ \A k \in 1..Len(lbCalls) :
        LET c == lbCalls[k]
            key == c.leaderboardUrl.viewKey
        IN (c.fetched /\ c.hasData) =>
            /\ Cardinality(RowsFor(c.after, key)) = 1
            /\ RowsFor(c.before, key) \subseteq RowsFor(c.after, key)
            /\ \A x \in RowsFor(c.after, key) : c.after[x].data.json = c.data
            /\ DOMAIN c.after = DOMAIN c.before \cup RowsFor(c.after, key)
            /\ \A x \in DOMAIN c.before \ RowsFor(c.before, key) :
                c.after[x] = c.before[x]

\* a call refreshed the row of a key that had a row with other data, and a
\* later call of the run refreshed it again
C29_Witness ==
    \E a, b \in 1..Len(lbCalls) :
        /\ a < b
        /\ lbCalls[a].leaderboardUrl.viewKey = lbCalls[b].leaderboardUrl.viewKey
        /\ lbCalls[a].fetched /\ lbCalls[a].hasData
        /\ lbCalls[b].fetched /\ lbCalls[b].hasData
        /\ \E x \in RowsFor(lbCalls[a].before, lbCalls[a].leaderboardUrl.viewKey) :
            lbCalls[a].before[x].data.json # lbCalls[a].data
        /\ Cardinality(RowsFor(leaderboardCache,
                               lbCalls[a].leaderboardUrl.viewKey)) = 1

(***************************************************************************)
(* Properties of the end of a run (checked under Spec).                    *)
(***************************************************************************)
\* the deliveries of a pass that were classified PermanentFailure
Retired(pass) ==
    {k \in 1..Len(deliveries) :
        deliveries[k].pass = pass
        /\ deliveries[k].outcome = "PermanentFailure"}

\* C24 as stated: a run that attempted a delivery has, when it has ended,
\* printed a summary whose count of deleted webhooks is the number retired
\* in the puzzle pass plus the number retired in the leaderboard pass; a run
\* that ended with the no-op message had no active webhook and attempted no
\* puzzle delivery.
C24_AsStated ==
    Terminal =>
        /\ deliveries # <<>> =>
            /\ summary.printed = "Summary"
            /\ summary.deleted = Cardinality(Retired("puzzle"))
                                 + Cardinality(Retired("leaderboard"))
        /\ summary.printed = "No webhooks to process" =>
            /\ ActiveIds = {}
            /\ deliveries = <<>>

\* without foreign keys: the only puzzle notification of the run was answered
\* 404, the webhook was deleted, no webhook is active, and main() returned
\* with the no-op message
C24_Witness ==
    /\ pc = "done"
    /\ ~foreignKeys
    /\ summary.printed = "No webhooks to process"
    /\ Cardinality(Retired("puzzle")) = 1
    /\ Len(deliveries) = 1
    /\ DOMAIN webhooks # DOMAIN webhooks0

\* the webhook_deleted rows of the table logs that carry the id
RetiredLogged(id) ==
    \E k \in 1..Len(logs) :
        logs[k].webhookId = id /\ logs[k].type = "webhook_deleted"

\* C27 as stated, for a database that enforces the reference of logs to
\* webhooks: when a run that is not a dry run has ended, the table logs holds
\* a webhook_deleted row with the id of every webhook the run deleted.
C27_AsStated ==
    (Terminal /\ ~cliArgs.dryRun /\ foreignKeys) =>
        \A id \in DOMAIN webhooks0 \ DOMAIN webhooks : RetiredLogged(id)

\* a webhook was answered 404 and deleted, the insert of its webhook_deleted
\* row was rejected, and the run ended with the table logs empty
C27_Witness ==
    /\ pc = "failed"
    /\ foreignKeys
    /\ \E id \in DOMAIN webhooks0 \ DOMAIN webhooks :
        /\ Classified(id, "PermanentFailure")
        /\ ~RetiredLogged(id)
    /\ logs = <<>>

\* C26 as stated, without the eventuality: when a run that is not a dry run
\* has ended, main() has returned and every group of active webhooks was
\* processed exactly once: its leaderboard was asked for once, and then
\* either the fetch error was recorded or every webhook of the group got its
\* one delivery.
C26_AsStated ==
    (Terminal /\ ~cliArgs.dryRun) =>
        /\ pc = "done"
        /\ \A url \in ActiveUrls :
            /\ Cardinality(CallsFor(url)) = 1
            /\ \A k \in CallsFor(url) :
                lbCalls[k].hasData =>
                    \A id \in GroupIds(url) :
                        Cardinality(Attempts(id, "leaderboard")) = 1

\* the first of three groups has its webhook answered 404; the run ends with
\* the two other groups never asked for
C26_Witness ==
    /\ pc = "failed"
    /\ Cardinality(ActiveUrls) = 3
    /\ Len(lbCalls) = 1
    /\ Len(deliveries) = 1
    /\ deliveries[1].pass = "leaderboard"
    /\ deliveries[1].outcome = "PermanentFailure"

\* C28 as stated: a run started without --force-aoc on a day outside the
\* leaderboard season (the puzzle days and the day after the last puzzle)
\* sends no leaderboard update.
C28_AsStated ==
    (~cliArgs.forceAoc
     /\ ~isAocLeaderboardSeason(eastern.month, eastern.day)) =>
        LeaderboardDeliveries = {}

\* on December 26 a run without flags has delivered a leaderboard update
C28_Witness ==
    /\ pc = "done"
    /\ eastern.month = 12 /\ eastern.day = 26
    /\ ~cliArgs.forceAoc
    /\ ~cliArgs.dryRun
    /\ \E k \in LeaderboardDeliveries : deliveries[k].outcome = "Success"

(***************************************************************************)
(* Properties of the exit code (checked under SpecTest).                   *)
(***************************************************************************)
\* C25 as stated, for test-send runs: the process exits with code 0 unless
\* main() rejected, also when the leaderboard fetch or the delivery failed.
C25_AsStated ==
    (req.called /\ ~res.rejected) => res.exitCode = 0

\* a test-send run whose leaderboard fetch failed: nothing was sent, nothing
\* was thrown, and the process exited with code 1
C25_Witness ==
    /\ req.called
    /\ req.withLeaderboard
    /\ res.fetchError
    /\ ~res.sent
    /\ ~res.rejected
    /\ res.exitCode = 1

(***************************************************************************)
(* Properties of the retries (checked under Spec).                         *)
(***************************************************************************)
\* C23 as stated: in one run a webhook gets at most one delivery call per
\* pass, a delivery is one request, sent once whatever the answer, and only
\* the request for the leaderboard is repeated: at most 3 times, and only
\* after a transport failure.
C23_AsStated ==
    /\ \A id \in DOMAIN webhooks0 : \A pass \in {"puzzle", "leaderboard"} :
        Cardinality(Attempts(id, pass)) <= 1
    /\ \A k \in 1..Len(deliveries) : deliveries[k].requests <= 1
    /\ \A k \in 1..Len(lbCalls) :
        /\ lbCalls[k].requests <= 1 + RetryAttempts
        /\ lbCalls[k].requests > 1 => lbCalls[k].upstream.kind = "throw"

\* a webhook got its one leaderboard delivery call of the run; the
\* destination answered 410 and the fetcher sent the request four times
C23_Witness ==
    /\ pc = "done"
    /\ \E k \in 1..Len(deliveries) :
        /\ deliveries[k].pass = "leaderboard"
        /\ deliveries[k].net = [kind |-> "response", status |-> 410]
        /\ deliveries[k].outcome = "TransientFailure"
        /\ deliveries[k].requests = 1 + RetryAttempts
        /\ Cardinality(Attempts(deliveries[k].id, "leaderboard")) = 1

(***************************************************************************)
(* Properties of the puzzle notification hour the routes store (checked    *)
(* under SpecDisable, where every POST body and every PUT body carries -1).*)
(***************************************************************************)
\* the rows POST created: the table had w1 only when the run was started
Created == DOMAIN webhooks \ DOMAIN webhooks0

\* the webhooks the run loaded with the puzzle notification disabled
LoadedDisabled ==
    {allWebhooks[k].id : k \in {x \in 1..Len(allWebhooks) :
                                   allWebhooks[x].puzzleNotificationHour = {}}}

\* C21 as stated: a webhook created with puzzle notification hour -1 is
\* stored with the notification disabled (null), and a webhook created or
\* updated with -1 gets no puzzle notification, in the run of hour 0 as in
\* any other.
C21_AsStated ==
    /\ \A id \in Created : webhooks[id].puzzleNotificationHour = {}
    /\ \A k \in 1..Len(deliveries) :
        deliveries[k].pass = "puzzle" =>
            /\ deliveries[k].id \in DOMAIN webhooks0
            /\ deliveries[k].id \notin LoadedDisabled

\* a POST with -1 was answered 201 before the run of hour 0 loaded the
\* table, and the run sent the puzzle notification to the new webhook
C21_Witness ==
    /\ pc = "done"
    /\ res.status = 201
    /\ \E k \in 1..Len(deliveries) :
        /\ deliveries[k].pass = "puzzle"
        /\ deliveries[k].id \notin DOMAIN webhooks0
        /\ deliveries[k].outcome = "Success"
        /\ deliveries[k].id \in Created
        /\ webhooks[deliveries[k].id].puzzleNotificationHour = {0}

(***************************************************************************)
(* Properties of the hours the schemas accept (checked under SpecSchema).  *)
(***************************************************************************)
NoRepeat(list) ==
    \A a, b \in 1..Len(list) : list[a] = list[b] => a = b

\* C22 as stated: the hours of a body that webhookCreateSchema accepts, and
\* the hours webhookUpdateSchema accepts, are a non-empty list of hours in
\* 0..23 in which no hour occurs twice.
C22_AsStated ==
    (req.called /\ res.success) =>
        \A k \in 1..Len(res.hours) :
            /\ Len(res.hours[k]) >= 1
            /\ \A x \in 1..Len(res.hours[k]) : res.hours[k][x] \in 0..LastHour
            /\ NoRepeat(res.hours[k])

\* POST's schema accepted a body whose hours are [0, 0]
C22_Witness ==
    /\ req.called
    /\ req.route = "POST"
    /\ req.body.hours = <<0, 0>>
    /\ res = Parsed(TRUE, << <<0, 0>> >>)

UpstreamFailed(c) == c.upstream.kind = "throw" \/ c.upstream.status # 200

\* C38: a getLeaderboard call whose fetch fails returns no data (an error),
\* and the cache table after the call is the table before it: no row is
\* created, the row of the key keeps data and fetchedAt, and the data of a
\* stale row is not returned.
C38_FailedFetchKeepsCache ==
    \A k \in 1..Len(lbCalls) :
        LET c == lbCalls[k]
        IN (c.fetched /\ UpstreamFailed(c)) =>
            /\ ~c.hasData
            /\ c.data = NoData
            /\ c.after = c.before
            /\ leaderboardCache = c.after \/ k < Len(lbCalls)

\* the fetch failed in a call that found a stale row for the key, and in a
\* call that found none
C38_Witness ==
    /\ \E k \in 1..Len(lbCalls) :
        /\ lbCalls[k].fetched /\ UpstreamFailed(lbCalls[k])
        /\ RowsFor(lbCalls[k].before, lbCalls[k].leaderboardUrl.viewKey) # {}
        /\ RowsFor(leaderboardCache, lbCalls[k].leaderboardUrl.viewKey) # {}
    /\ \E k \in 1..Len(lbCalls) :
        /\ lbCalls[k].fetched /\ UpstreamFailed(lbCalls[k])
        /\ RowsFor(lbCalls[k].before, lbCalls[k].leaderboardUrl.viewKey) = {}

(***************************************************************************)
(* Properties of the payload getLeaderboard returns (checked under Spec).  *)
(***************************************************************************)
\* C37 as stated: the data a getLeaderboard call returns is the leaderboard
\* of its URL, the event of the URL's year and the board of the URL's id,
\* also when another URL with the same view key was fetched before.
C37_AsStated ==
    \A k \in 1..Len(lbCalls) :
        lbCalls[k].hasData =>
            /\ lbCalls[k].data.event = lbCalls[k].leaderboardUrl.year
            /\ lbCalls[k].data.owner_id = lbCalls[k].leaderboardUrl.board

\* the run fetched the leaderboard of one URL and then served it from the
\* cache to the group of another URL, of another year, with the same view
\* key
C37_Witness ==
    \E a, b \in 1..Len(lbCalls) :
        /\ a < b
        /\ lbCalls[a].fetched /\ lbCalls[a].hasData
        /\ lbCalls[a].leaderboardUrl # lbCalls[b].leaderboardUrl
        /\ lbCalls[a].leaderboardUrl.viewKey = lbCalls[b].leaderboardUrl.viewKey
        /\ ~lbCalls[b].fetched /\ lbCalls[b].hasData
        /\ lbCalls[b].data = lbCalls[a].data
        /\ lbCalls[b].data.event # lbCalls[b].leaderboardUrl.year

(***************************************************************************)
(* Properties of a dry run (checked under Spec).                           *)
(***************************************************************************)
\* C39: at every point of a run with --dry-run the table webhooks is the one
\* the run started with and the table logs has no new row, also after a
\* failed fetch; only leaderboard_cache may differ.
C39_DryRunWritesCacheOnly ==
    cliArgs.dryRun => (webhooks = webhooks0 /\ logs = <<>>)

\* a dry run ended after one fetch that failed and one that wrote the cache
C39_Witness ==
    /\ cliArgs.dryRun
    /\ pc = "done"
    /\ \E k \in 1..Len(lbCalls) : lbCalls[k].fetched /\ ~lbCalls[k].hasData
    /\ \E k \in 1..Len(lbCalls) :
        /\ lbCalls[k].fetched /\ lbCalls[k].hasData
        /\ lbCalls[k].after # lbCalls[k].before
    /\ DOMAIN webhooks0 # {}

(***************************************************************************)
(* Properties of a webhook deleted in the puzzle pass (checked under Spec).*)
(***************************************************************************)
\* C36 as stated: a webhook whose puzzle notification was classified a
\* permanent failure, and which was deleted for it, gets no leaderboard
\* delivery later in the run, and the count of deleted webhooks in the
\* summary is the number of webhooks the run deleted.
C36_AsStated ==
    /\ \A a \in Retired("puzzle") : \A b \in LeaderboardDeliveries :
        deliveries[b].id # deliveries[a].id
    /\ summary.printed = "Summary" =>
        summary.deleted = Cardinality(DOMAIN webhooks0 \ DOMAIN webhooks)

\* without foreign keys: the puzzle notification of a webhook was answered
\* 404 and the webhook deleted, the leaderboard pass sent to it again and
\* was answered 404 again, and the summary counts two deleted webhooks
C36_Witness ==
    /\ pc = "done"
    /\ ~foreignKeys
    /\ \E a \in Retired("puzzle") : \E b \in Retired("leaderboard") :
        /\ a < b
        /\ deliveries[b].id = deliveries[a].id
        /\ deliveries[a].id \notin DOMAIN webhooks
    /\ Cardinality(DOMAIN webhooks0 \ DOMAIN webhooks) = 1
    /\ summary.printed = "Summary"
    /\ summary.deleted = 2

(***************************************************************************)
(* Properties of the counters of the leaderboard pass (checked under Spec).*)
(***************************************************************************)
\* the active webhooks the leaderboard pass sent to with the outcome
SentWith(outcome) ==
    {id \in ActiveIds :
        \E k \in Attempts(id, "leaderboard") : deliveries[k].outcome = outcome}

\* the active webhooks whose group got no data
Unfetched == {id \in ActiveIds : FetchFailed(webhooks0[id].leaderboardUrl)}

\* C35 as stated: when a run that is not a dry run and has started its
\* leaderboard pass has ended, every webhook active this hour was handled
\* once, whatever was deleted on the way: successes, errors and deleted add up
\* to the number of active webhooks, successes being the webhooks sent to with
\* success, deleted the ones answered with a permanent failure, and errors
\* the ones that failed transiently or whose leaderboard was not fetched.
C35_AsStated ==
    (Terminal /\ ~cliArgs.dryRun /\ lbCalls # <<>>) =>
        /\ counts.success + counts.errors + counts.deleted
            = Cardinality(ActiveIds)
        /\ \A id \in ActiveIds :
            Cardinality(Attempts(id, "leaderboard")) <= 1
        /\ counts.success = Cardinality(SentWith("Success"))
        /\ counts.deleted = Cardinality(SentWith("PermanentFailure"))
        /\ counts.errors = Cardinality(SentWith("TransientFailure")
                                       \cup Unfetched)

\* with foreign keys: the first of two active webhooks was answered 404 and
\* deleted, the run ended there, and the second one is in no counter
C35_Witness ==
    /\ pc = "failed"
    /\ foreignKeys
    /\ Cardinality(ActiveIds) = 2
    /\ Len(lbCalls) = 1
    /\ Cardinality(SentWith("PermanentFailure")) = 1
    /\ Cardinality(LeaderboardDeliveries) = 1
    /\ counts.success + counts.errors + counts.deleted = 0
    /\ Cardinality(DOMAIN webhooks) = 1

(***************************************************************************)
(* Properties of the persisted state at any point of a run, that is, of   *)
(* what an abort at that point leaves behind (checked under Spec).         *)
(***************************************************************************)
\* the table logs holds a row of the type for the webhook
Logged(id, type) ==
    \E k \in 1..Len(logs) : logs[k].webhookId = id /\ logs[k].type = type

\* the webhooks the run has sent to
SentTo == {deliveries[k].id : k \in 1..Len(deliveries)}

\* C31 as stated: at every point of a run that is not a dry run, the
\* outcome of every delivery made so far is persisted: a webhook answered
\* with a permanent failure is deleted and has its webhook_deleted row, a
\* webhook that is still stored has the success or error row of its
\* delivery; and a webhook the run has not sent to is stored as it was.
C31_AsStated ==
    ~cliArgs.dryRun =>
        /\ \A k \in 1..Len(deliveries) :
            LET d == deliveries[k]
            IN /\ d.outcome = "PermanentFailure" =>
                    (d.id \notin DOMAIN webhooks /\ Logged(d.id, "webhook_deleted"))
               /\ (d.outcome = "Success" /\ d.id \in DOMAIN webhooks) =>
                    Logged(d.id, "success")
               /\ (d.outcome = "TransientFailure" /\ d.id \in DOMAIN webhooks) =>
                    Logged(d.id, "error")
        /\ \A id \in DOMAIN webhooks0 \ SentTo :
            id \in DOMAIN webhooks /\ webhooks[id] = webhooks0[id]

\* with foreign keys: the run was aborted by the rejected insert after it
\* had logged the success of one webhook and deleted the next one, which is
\* gone without a webhook_deleted row
C31_Witness ==
    /\ pc = "failed"
    /\ foreignKeys
    /\ \E a, b \in 1..Len(deliveries) :
        /\ a < b
        /\ deliveries[a].id # deliveries[b].id
        /\ deliveries[a].outcome = "Success"
        /\ Logged(deliveries[a].id, "success")
        /\ deliveries[b].outcome = "PermanentFailure"
        /\ deliveries[b].id \notin DOMAIN webhooks
        /\ ~Logged(deliveries[b].id, "webhook_deleted")

(***************************************************************************)
(* Properties of the order of the network calls of a run (checked under    *)
(* Spec).  A call is in flight from the time it is made to the time its    *)
(* promise settles.                                                        *)
(***************************************************************************)
\* the row of the table logs a delivery with the outcome is recorded by
LogType(outcome) ==
    CASE outcome = "Success" -> "success"
      [] outcome = "PermanentFailure" -> "webhook_deleted"
      [] OTHER -> "error"

\* C32: the deliveries of a run are made one after the other, each one
\* called after the one before has settled and the delay has passed, and no
\* delivery is in flight while a leaderboard is fetched; while the run goes
\* on, the outcome of every delivery made is in the table logs; and when
\* the first leaderboard is asked for, the puzzle pass is over: every
\* webhook due a puzzle notification has been sent to, and no puzzle
\* delivery is made afterwards.
C32_Serialized ==
    /\ \A a, b \in 1..Len(deliveries) :
        a < b => deliveries[a].returned + DeliveryDelay <= deliveries[b].at
    /\ \A a, b \in 1..Len(lbCalls) :
        a < b => lbCalls[a].returned <= lbCalls[b].at
    /\ \A k \in 1..Len(deliveries) : \A c \in 1..Len(lbCalls) :
        \/ deliveries[k].returned + DeliveryDelay <= lbCalls[c].at
        \/ lbCalls[c].returned <= deliveries[k].at
    /\ (pc # "failed" /\ ~cliArgs.dryRun) =>
        \A k \in 1..Len(deliveries) :
            Logged(deliveries[k].id, LogType(deliveries[k].outcome))
    /\ lbCalls # <<>> =>
        /\ isDuringAoc /\ ~cliArgs.dryRun =>
            \A id \in PuzzleIds : Attempts(id, "puzzle") # {}
        /\ \A k \in PuzzleDeliveries : deliveries[k].returned <= lbCalls[1].at

\* a run made two puzzle deliveries, the first one retried, then fetched a
\* leaderboard and made two leaderboard deliveries
C32_Witness ==
    /\ pc = "done"
    /\ Cardinality(PuzzleDeliveries) = 2
    /\ deliveries[1].requests > 1
    /\ Len(lbCalls) >= 1
    /\ lbCalls[1].fetched
    /\ Cardinality(LeaderboardDeliveries) = 2
    /\ deliveries[4].at > lbCalls[1].returned

(***************************************************************************)
(* Properties of concurrent refreshes (checked under SpecRace).            *)
(***************************************************************************)
\* the calls that fetched data and wrote it
Refreshed == {c \in Callers : res[c].fetched /\ res[c].hasData}

AllReturned == \A c \in Callers : req[c].at = "returned"

\* C33: however the steps of two getLeaderboard calls for one view key
\* interleave, the table never holds two rows for the key and no call is
\* rejected; when both have returned and at least one has fetched data, the
\* one row of the key holds the data one of them fetched, and every call
\* whose fetch was answered has its own data.
C33_LastWriteWins ==
    /\ Cardinality(RowsFor(leaderboardCache, "k1")) <= 1
    /\ \A c \in Callers : ~res[c].rejected
    /\ (AllReturned /\ Refreshed # {}) =>
        /\ Cardinality(RowsFor(leaderboardCache, "k1")) = 1
        /\ \A x \in RowsFor(leaderboardCache, "k1") :
            \E c \in Refreshed : leaderboardCache[x].data.json = res[c].data
        /\ \A c \in Refreshed :
            res[c].data.event = req[c].leaderboardUrl.year

\* with the default TTL both calls missed the cache, both fetched, for two
\* URLs with the same view key, and both upserts were made: the row holds
\* the data of the second call, not that of the first
C33_Witness ==
    /\ AllReturned
    /\ ~cliArgs.skipCache
    /\ Refreshed = Callers
    /\ req[1].leaderboardUrl # req[2].leaderboardUrl
    /\ \A x \in RowsFor(leaderboardCache, "k1") :
        /\ leaderboardCache[x].data.json = res[2].data
        /\ leaderboardCache[x].data.json # res[1].data

====
